---- MODULE Spec2Model ----
(***************************************************************************)
(* Model of the itinerary normalization and enrichment pipeline of the     *)
(* travel planner (src/planner.py, src/api.py).                            *)
(*                                                                         *)
(* Documents are records and sequences.  Money is integer; the Python code *)
(* computes the caps in floating point from the budget and the day count,  *)
(* and the model keeps every cap as an exact fraction numerator /          *)
(* denominator, so that comparisons, int() (floor of a non-negative value) *)
(* and round() (round half to even) are computed exactly.                  *)
(***************************************************************************)
EXTENDS Integers, Sequences, FiniteSets, TLC

VARIABLES
    pc,             \* position of the running operation / pipeline
    calls,          \* number of completed calls of the operation under study
    total_budget,   \* request: budget
    days,           \* request: days
    itinerary_raw,  \* the generator's itinerary document
    itinerary,      \* the working copy (sequence of days)
    budget_raw,     \* the generator's budget document
    budget_info,    \* the working copy of the budget document
    day_activities, \* schedule_meals: the activity list it is given
    scheduled,      \* schedule_meals: the slots it returned
    itinerary_meta, \* the working itinerary's own 'meta' map
    meal_pois,      \* the food POIs fetched for the request
    hotel_recs,     \* the hotels fetched for the request
    transport_options,      \* what build_transport_pricing returned
    transport_summary,      \* third result of _inject_transport_costs
    _exchange_rate_cache,   \* api.py: currency -> rate, process-wide
    _cost_history,          \* api.py: category -> recent costs, process-wide
    smoothing,      \* _smooth_cost_outliers calls in progress: worker -> activities, position
    _poi_cache,     \* api.py: key -> [data, ts], process-wide
    now,            \* time.time()
    heap,           \* mutable payload objects: object -> contents
    held,           \* the payload objects callers hold references to
    stored,         \* key -> contents of the payload at the time of the last set
    geo_result,     \* what the last cache call returned to its caller
    attempt,        \* planner_agent / budget_agent: the loop variable
    response,       \* what the last generation attempt answered
    waits,          \* the time.sleep calls made, in order
    agent_result,   \* what the agent call returned or raised
    text,           \* _parse_json_safe: the text, as tokens
    parsed,         \* _parse_json_safe: what it returned or raised
    request,        \* generate_itinerary: the values of the request
    _hotel_cache,   \* api.py: key -> [data, ts], process-wide
    external_calls, \* collaborator invocations so far: geo and hotel fetchers, rate lookups
    http,           \* generate_itinerary: the response sent
    rate_ts,        \* currency -> time at which its cached rate was stored
    inflight        \* cache get calls in progress: request -> position, key, payload read

docVars == <<total_budget, days, itinerary_raw, itinerary, budget_raw, budget_info>>
mealVars == <<day_activities, scheduled>>
pipeVars == <<itinerary_meta, meal_pois, hotel_recs, transport_options, transport_summary,
              _exchange_rate_cache, _cost_history>>

smoothVars == <<smoothing>>
cacheVars == <<_poi_cache, now, heap, held, stored, geo_result>>
agentVars == <<attempt, response, waits, agent_result>>
parseVars == <<text, parsed>>
reqVars == <<request, _hotel_cache, external_calls, http, rate_ts, inflight>>
svcVars == <<smoothVars, cacheVars, agentVars, parseVars, reqVars>>

vars == <<pc, calls, docVars, mealVars, pipeVars, svcVars>>

(***************************************************************************)
(* Bounds of the model.                                                    *)
(***************************************************************************)
MaxEntries == 5     \* activity and meal entries of a day
MaxCalls == 2       \* repeated applications of one normalizer

(***************************************************************************)
(* Values.                                                                 *)
(***************************************************************************)
\* entry.get('cost') of an entry without a usable cost (None, 'free', ...)
NoCost == -1000

\* The costs the generator may write into an entry.
RawCosts == {NoCost, 7, 30, 40, 60}

\* The total_cost the generator wrote on a day; never trusted.
RawTotal == 999

\* (budget, days) of a request.
Requests == {<<300, 5>>, <<900, 7>>}

Max(a, b) == IF a >= b THEN a ELSE b
Min(a, b) == IF a <= b THEN a ELSE b

SeqsUpTo(S, n) == UNION {[1..m -> S] : m \in 0..n}

RECURSIVE SumCosts(_)
SumCosts(s) == IF s = <<>> THEN 0 ELSE Head(s) + SumCosts(Tail(s))

\* Python int(x) for x = n/d >= 0.
IntOf(n, d) == n \div d

\* Python round(x) for x = n/d >= 0: nearest integer, ties to the even one.
Round(n, d) ==
    LET q == n \div d
        r == n % d
    IN  IF 2 * r < d THEN q
        ELSE IF 2 * r > d THEN q + 1
        ELSE IF q % 2 = 0 THEN q ELSE q + 1

(***************************************************************************)
(* planner.py: cost normalizer.                                            *)
(***************************************************************************)
_coerce_cost(value) == IF value = NoCost THEN 0 ELSE Max(0, value)

\* days = max(1, int(days or 1))
SafeDays(d) == Max(1, d)

\* safe_budget = max(100.0, float(total_budget or 100.0))
SafeBudget(b) == Max(100, b)

\* per_day_cap = max(60.0, per_day_base * 1.2), as PerDayCapN / PerDayCapD
PerDayCapD(d) == 5 * SafeDays(d)
PerDayCapN(b, d) == Max(60 * PerDayCapD(d), 6 * SafeBudget(b))

\* per_entry_cap = max(10.0, min(per_day_cap * 0.5, per_day_base * 0.35, 95.0)),
\* as PerEntryCapN / PerEntryCapD
PerEntryCapD(d) == 20 * SafeDays(d)

\* Mutant of PerEntryCapN: the term per_day_base * 0.35 left out of the min.
PerEntryCapN_NoBaseTerm(b, d) ==
    Max(10 * PerEntryCapD(d), Min(2 * PerDayCapN(b, d), 95 * PerEntryCapD(d)))

PerEntryCapN(b, d) ==
    Max(10 * PerEntryCapD(d),
        Min(Min(2 * PerDayCapN(b, d), 7 * SafeBudget(b)), 95 * PerEntryCapD(d)))

\* lines 295-298: cost = _coerce_cost(...); if cost > per_entry_cap: cost = int(per_entry_cap)
ClampEntryCost(value, b, d) ==
    LET cost == _coerce_cost(value)
    IN  IF cost * PerEntryCapD(d) > PerEntryCapN(b, d)
        THEN IntOf(PerEntryCapN(b, d), PerEntryCapD(d))
        ELSE cost

\* line 306: new_cost = int(max(0, round(entry['cost'] * ratio))), ratio = per_day_cap / day_total
ScaleEntryCost(cost, day_total, b, d) ==
    Max(0, Round(cost * PerDayCapN(b, d), PerDayCapD(d) * day_total))

CostsOf(entries) == [i \in 1..Len(entries) |-> entries[i].cost]

\* lines 292-299 over one bucket
ClampCosts(entries, b, d) ==
    [i \in 1..Len(entries) |-> [entries[i] EXCEPT !.cost = ClampEntryCost(@, b, d)]]

\* lines 305-308 over one bucket
ScaleCosts(entries, day_total, b, d) ==
    [i \in 1..Len(entries) |-> [entries[i] EXCEPT !.cost = ScaleEntryCost(@, day_total, b, d)]]

\* The sum of the cost fields of a day's activities and meals.
DayEntrySum(day) == SumCosts(CostsOf(day.activities)) + SumCosts(CostsOf(day.meals))

\* Mutant of NormalizeDay: the rescaled day keeps the total summed before the
\* rescale (day_total = adjusted_total forgotten).
NormalizeDay_StaleTotal(day, b, d) ==
    LET clamped == [day EXCEPT !.activities = ClampCosts(@, b, d),
                               !.meals = ClampCosts(@, b, d)]
        day_total == DayEntrySum(clamped)
        scaled == [clamped EXCEPT !.activities = ScaleCosts(@, day_total, b, d),
                                  !.meals = ScaleCosts(@, day_total, b, d)]
    IN  IF day_total * PerDayCapD(d) > PerDayCapN(b, d) /\ day_total > 0
        THEN [scaled EXCEPT !.total_cost = day_total]
        ELSE [clamped EXCEPT !.total_cost = day_total]

\* lines 283-311: one day of normalize_itinerary_costs
NormalizeDay(day, b, d) ==
    LET clamped == [day EXCEPT !.activities = ClampCosts(@, b, d),
                               !.meals = ClampCosts(@, b, d)]
        day_total == DayEntrySum(clamped)
        scaled == [clamped EXCEPT !.activities = ScaleCosts(@, day_total, b, d),
                                  !.meals = ScaleCosts(@, day_total, b, d)]
    IN  IF day_total * PerDayCapD(d) > PerDayCapN(b, d) /\ day_total > 0
        THEN [scaled EXCEPT !.total_cost = DayEntrySum(scaled)]
        ELSE [clamped EXCEPT !.total_cost = day_total]

\* lines 268-313
normalize_itinerary_costs(doc, b, d) ==
    [i \in 1..Len(doc) |-> NormalizeDay(doc[i], b, d)]

(***************************************************************************)
(* planner.py: budget normalizer.  A budget document is a record           *)
(* [total_budget, daily_budget, breakdown]; breakdown maps the categories  *)
(* it holds to their section records.                                      *)
(***************************************************************************)
\* category_caps, in the order the loop visits them
CategoryKeys == <<"accommodation", "food", "activities", "transport", "contingency">>

\* category_caps[key] = per_day_base * CategoryWeight(key) / 100
CategoryWeight(key) ==
    CASE key = "accommodation" -> 55
      [] key = "food" -> 25
      [] key = "activities" -> 30
      [] key = "transport" -> 35
      [] key = "contingency" -> 15

\* lines 346-350: the field of a section that carries the category total
PrimaryField(key) ==
    IF key \in {"activities", "transport"} THEN "estimated"
    ELSE IF key = "contingency" THEN "amount"
    ELSE "subtotal"

\* safe_total = int(max(100, round(total_budget or 0)))
SafeTotal(b) == Max(100, b)

\* safe_daily = int(max(40, round(safe_total / days)))
SafeDaily(b, d) == Max(40, Round(SafeTotal(b), SafeDays(d)))

\* min(ceiling, _coerce_cost(value) or ceiling)
CeilField(value, ceiling) ==
    IF _coerce_cost(value) = 0 THEN ceiling ELSE Min(ceiling, _coerce_cost(value))

\* int(min(_coerce_cost(value), per_day_base * weight / 100))
CapField(value, weight, b, d) ==
    LET raw == _coerce_cost(value)
    IN  IF raw * 100 * SafeDays(d) <= SafeTotal(b) * weight
        THEN raw
        ELSE IntOf(SafeTotal(b) * weight, 100 * SafeDays(d))

\* lines 352-359: one section of the breakdown
ClampSection(key, section, b, d) ==
    LET s1 == [section EXCEPT ![PrimaryField(key)] = CapField(@, CategoryWeight(key), b, d)]
        s2 == IF "per_night" \in DOMAIN s1
              THEN [s1 EXCEPT !.per_night = CapField(@, 55, b, d)] ELSE s1
    IN  IF "per_day" \in DOMAIN s2
        THEN [s2 EXCEPT !.per_day = CapField(@, 25, b, d)] ELSE s2

CategoryTotal(breakdown, key) ==
    IF key \in DOMAIN breakdown THEN breakdown[key][PrimaryField(key)] ELSE 0

\* The sum of the category totals of a breakdown.
CategorySum(breakdown) ==
    SumCosts([i \in 1..Len(CategoryKeys) |-> CategoryTotal(breakdown, CategoryKeys[i])])

\* line 365: section[field] = int(max(0, round(value * ratio))), ratio = safe_total / total_categories
ScaleCategory(value, total_categories, b) ==
    Max(0, Round(value * SafeTotal(b), total_categories))

\* lines 328-365
NormalizeBreakdown(breakdown, b, d) ==
    LET clamped == [key \in DOMAIN breakdown |-> ClampSection(key, breakdown[key], b, d)]
        total_categories == CategorySum(clamped)
    IN  IF total_categories > SafeTotal(b) /\ total_categories > 0
        THEN [key \in DOMAIN clamped |->
                [clamped[key] EXCEPT ![PrimaryField(key)] =
                    ScaleCategory(@, total_categories, b)]]
        ELSE clamped

\* lines 316-367
normalize_budget_estimate(doc, b, d) ==
    LET ceiled == [doc EXCEPT !.total_budget = CeilField(@, SafeTotal(b)),
                              !.daily_budget = CeilField(@, SafeDaily(b, d))]
    IN  IF "breakdown" \in DOMAIN ceiled
        THEN [ceiled EXCEPT !.breakdown = NormalizeBreakdown(@, b, d)]
        ELSE ceiled

(***************************************************************************)
(* planner.py: time-window meal scheduler.                                 *)
(*                                                                         *)
(* A time text is <<hour digits, minute digits, meridian>> as the regular  *)
(* expression of _parse_minutes splits it (minute NoGroup when the text    *)
(* has no ":MM", meridian "" when it has no am/pm), or NoMatch for a text  *)
(* the expression rejects and for a missing time.  The text of an entry is *)
(* modelled by its label; KeywordsIn gives the words found in it.          *)
(***************************************************************************)
None == -1
NoGroup == -1
NoMatch == <<>>

MAX_SCHEDULED_MEALS == 3
MIN_DAY_SPAN_MINUTES == 14 * 60

MEAL_WINDOWS == <<
    [type |-> "breakfast", label |-> "Breakfast", start |-> 6 * 60 + 30, end |-> 10 * 60],
    [type |-> "lunch", label |-> "Lunch", start |-> 11 * 60 + 30, end |-> 14 * 60 + 30],
    [type |-> "snack", label |-> "Snacks", start |-> 15 * 60, end |-> 17 * 60 + 30],
    [type |-> "dinner", label |-> "Dinner", start |-> 18 * 60, end |-> 21 * 60 + 30] >>

TRAVEL_ACTIVITY_KEYWORDS ==
    {"travel", "transfer", "transit", "journey", "drive", "flight", "train", "depart",
     "arrival", "commute", "ferry", "bus"}

\* The travel words that occur in the text of an entry, by its label.
KeywordsIn(label) ==
    CASE label = "Train to the coast" -> {"train"}
      [] label = "Ferry crossing" -> {"ferry"}
      [] label = "Departure flight" -> {"depart", "departure", "flight"}
      [] label = "Flight via carrier" -> {"flight"}
      [] label = "Train via carrier" -> {"train"}
      [] label = "Coast by train" -> {"train"}
      [] OTHER -> {}

\* lines 370-383
_parse_minutes(value) ==
    IF value = NoMatch THEN None
    ELSE LET hour0 == value[1] % 24
             minute == IF value[2] = NoGroup THEN 0 ELSE value[2]
             meridian == value[3]
             hour1 == IF meridian = "pm" /\ hour0 # 12 THEN hour0 + 12 ELSE hour0
             hour == IF meridian = "am" /\ hour1 = 12 THEN 0 ELSE hour1
         IN  hour * 60 + minute

\* lines 386-390: "HH:MM" as <<HH, MM>>
_format_minutes(total_minutes) ==
    LET t == Max(0, Min(total_minutes, 23 * 60 + 59))
    IN  <<t \div 60, t % 60>>

\* lines 393-394
_clamp_minutes(value, min_value, max_value) == Max(min_value, Min(value, max_value))

\* lines 397-403
_is_travel_entry(entry) == KeywordsIn(entry.activity) \cap TRAVEL_ACTIVITY_KEYWORDS # {}

\* lines 406-415; None when the time does not parse
_activity_range(entry) ==
    LET start == _parse_minutes(entry.time)
        given == IF entry.duration_minutes = 0 THEN 60 ELSE entry.duration_minutes
        duration == Max(30, Min(given, 6 * 60))
    IN  IF start = None THEN <<>> ELSE <<start, start + duration>>

\* lines 418-428
_window_overlaps_travel(window, activities) ==
    \E i \in 1..Len(activities) :
        /\ _is_travel_entry(activities[i])
        /\ _activity_range(activities[i]) # <<>>
        /\ _activity_range(activities[i])[2] >= window.start
        /\ _activity_range(activities[i])[1] <= window.end

ParsedTimes(activities) ==
    {_parse_minutes(activities[i].time) : i \in 1..Len(activities)} \ {None}

SetMin(S) == CHOOSE x \in S : \A y \in S : x <= y
SetMax(S) == CHOOSE x \in S : \A y \in S : x >= y

\* lines 431-445
_infer_day_window(activities) ==
    LET times == ParsedTimes(activities)
    IN  IF times = {} THEN <<8 * 60, 22 * 60>>
        ELSE LET start == SetMin(times)
                 end0 == SetMax(times)
                 end == IF end0 - start < MIN_DAY_SPAN_MINUTES
                        THEN start + MIN_DAY_SPAN_MINUTES ELSE end0
             IN  <<start, Min(end, 23 * 60 + 50)>>

\* lines 462-468
WindowSlot(window, day_start, day_end) ==
    [type |-> window.type,
     label |-> window.label,
     time |-> _format_minutes(_clamp_minutes((window.start + window.end) \div 2,
                                              day_start, day_end)),
     window |-> <<window.start, window.end>>]

\* lines 470-477
SnackSlot(day_start, day_end) ==
    LET midpoint == (day_start + day_end) \div 2
    IN  [type |-> "snack", label |-> "Snacks", time |-> _format_minutes(midpoint),
         window |-> <<midpoint - 30, midpoint + 30>>]

\* lines 455-468: the loop over MEAL_WINDOWS from window i on
RECURSIVE MealLoop(_, _, _, _)
MealLoop(i, acc, activities, limit) ==
    LET day == _infer_day_window(activities)
        window == MEAL_WINDOWS[i]
    IN  IF i > Len(MEAL_WINDOWS) \/ Len(acc) >= limit THEN acc
        ELSE IF window.end < day[1] - 60 \/ window.start > day[2] + 60
             THEN MealLoop(i + 1, acc, activities, limit)
        ELSE IF _window_overlaps_travel(window, activities)
             THEN MealLoop(i + 1, acc, activities, limit)
        ELSE MealLoop(i + 1, Append(acc, WindowSlot(window, day[1], day[2])),
                      activities, limit)

\* Mutant of schedule_meals: neither the break at MAX_SCHEDULED_MEALS nor
\* the final slice.
schedule_meals_NoLimit(activities) ==
    LET day == _infer_day_window(activities)
        looped == MealLoop(1, <<>>, activities, Len(MEAL_WINDOWS) + 1)
    IN  IF looped = <<>> /\ activities # <<>>
        THEN <<SnackSlot(day[1], day[2])>>
        ELSE looped

\* lines 448-479
schedule_meals(activities) ==
    LET day == _infer_day_window(activities)
        looped == MealLoop(1, <<>>, activities, MAX_SCHEDULED_MEALS)
        scheduled_ == IF looped = <<>> /\ activities # <<>>
                      THEN <<SnackSlot(day[1], day[2])>>
                      ELSE looped
    IN  SubSeq(scheduled_, 1, Min(Len(scheduled_), MAX_SCHEDULED_MEALS))

(***************************************************************************)
(* planner.py: meal merge.  An entry of the pipeline carries every field   *)
(* the steps read; a field the entry does not have holds the value .get()  *)
(* gives for it: NoCost for cost and estimated_cost, NoMatch for time, 0   *)
(* for duration_minutes, "" for category.                                  *)
(***************************************************************************)
\* lines 482-489
_estimate_meal_cost(meal_type) ==
    CASE meal_type = "breakfast" -> 12
      [] meal_type = "lunch" -> 18
      [] meal_type = "dinner" -> 24
      [] meal_type = "snack" -> 10
      [] OTHER -> 15

\* The sum _recompute_day_totals takes over a day: every entry's coerced cost.
RECURSIVE CoercedSum(_)
CoercedSum(entries) ==
    IF entries = <<>> THEN 0
    ELSE _coerce_cost(Head(entries).cost) + CoercedSum(Tail(entries))

DayCostSum(day) == CoercedSum(day.activities) + CoercedSum(day.meals)

\* lines 505-517
_recompute_day_totals(schedule) ==
    [i \in 1..Len(schedule) |-> [schedule[i] EXCEPT !.total_cost = DayCostSum(schedule[i])]]

\* lines 529-533: fallback_lookup.get(day.get('day')), [] when no raw day has that index
FallbackMeals(fallback_source, day_index) ==
    LET hits == {i \in 1..Len(fallback_source) : fallback_source[i].day = day_index}
    IN  IF hits = {} THEN <<>> ELSE fallback_source[SetMax(hits)].meals

\* lines 550-572: the curated meal of slot slot_idx, given the POI it was dealt
CuratedMeal(slot, slot_idx, poi, fallback_meals) ==
    LET carried == IF slot_idx <= Len(fallback_meals)
                   THEN _coerce_cost(fallback_meals[slot_idx].cost) ELSE 0
    IN  [time |-> slot.time,
         type |-> slot.label,
         restaurant |-> poi.name,
         cost |-> IF carried <= 0 THEN _estimate_meal_cost(slot.type) ELSE carried]

\* Meal slots dealt before day i: the value of poi_index when the loop reaches it.
RECURSIVE SlotsBefore(_, _)
SlotsBefore(schedule, i) ==
    IF i <= 1 THEN 0
    ELSE SlotsBefore(schedule, i - 1) + Len(schedule_meals(schedule[i - 1].activities))

\* lines 542-576: one day of the merge
MergeDay(schedule, i, pois, fallback_source) ==
    LET day == schedule[i]
        slots == schedule_meals(day.activities)
        lookup == FallbackMeals(fallback_source, day.day)
        fallback_meals == IF lookup # <<>> THEN lookup ELSE day.meals
        first == SlotsBefore(schedule, i)
        curated == [k \in 1..Len(slots) |->
                      CuratedMeal(slots[k], k,
                                  pois[((first + k - 1) % Len(pois)) + 1],
                                  fallback_meals)]
    IN  IF slots = <<>> THEN day
        ELSE [day EXCEPT !.meals = curated, !.meal_source = "geoapify"]

\* lines 520-579
apply_meal_pois(schedule, pois, fallback_source) ==
    IF schedule = <<>> \/ pois = <<>> THEN schedule
    ELSE _recompute_day_totals(
            [i \in 1..Len(schedule) |-> MergeDay(schedule, i, pois, fallback_source)])

(***************************************************************************)
(* api.py: outlier smoothing over the process-wide cost history.           *)
(***************************************************************************)
HISTORY_MAXLEN == 120

\* lines 199-203 on a cost field
_safe_int(value) == IF value = NoCost THEN 0 ELSE value

\* (activity.get('category') or 'general').lower()
CategoryOf(activity) ==
    CASE activity.category = "" -> "general"
      [] activity.category = "Museum" -> "museum"
      [] OTHER -> activity.category

\* _cost_history.get(category), the empty history when the category has none
HistoryOf(history, category) ==
    IF category \in DOMAIN history THEN history[category] ELSE <<>>

\* Mutant of _record_history: a deque with no maxlen.
_record_history_Unbounded(history, category, value) ==
    IF value <= 0 THEN history
    ELSE [c \in DOMAIN history \cup {category} |->
            IF c = category THEN Append(HistoryOf(history, category), value) ELSE history[c]]

\* lines 114-117, the deque dropping its oldest value when full
_record_history(history, category, value) ==
    LET old == HistoryOf(history, category)
        kept == IF Len(old) >= HISTORY_MAXLEN THEN Tail(old) ELSE old
    IN  IF value <= 0 THEN history
        ELSE [c \in DOMAIN history \cup {category} |->
                IF c = category THEN Append(kept, value) ELSE history[c]]

\* lines 137: _safe_int(activity.get('estimated_cost') or activity.get('cost'))
ReadCost(activity) ==
    IF activity.estimated_cost # NoCost /\ activity.estimated_cost # 0
    THEN _safe_int(activity.estimated_cost)
    ELSE _safe_int(activity.cost)

\* line 111: sum(values), summed by halves of the index range
RECURSIVE SumRange(_, _, _)
SumRange(values, lo, hi) ==
    IF lo > hi THEN 0
    ELSE IF lo = hi THEN values[lo]
    ELSE SumRange(values, lo, (lo + hi) \div 2) + SumRange(values, (lo + hi) \div 2 + 1, hi)

HistorySum(values) == SumRange(values, 1, Len(values))

\* lines 138-145: avg = sum/len, the band [avg * 0.4, avg * 2.2]
SmoothedCost(cost, values) ==
    LET total == HistorySum(values)
        n == Len(values)
    IN  IF n = 0 \/ total = 0 \/ cost = 0 THEN cost
        ELSE IF cost * 5 * n < 2 * total THEN IntOf(2 * total, 5 * n)
        ELSE IF cost * 5 * n > 11 * total THEN IntOf(11 * total, 5 * n)
        ELSE cost

\* lines 146-148
SmoothedActivity(activity, history) ==
    LET cost == SmoothedCost(ReadCost(activity), HistoryOf(history, CategoryOf(activity)))
    IN  IF cost # 0 THEN [activity EXCEPT !.estimated_cost = cost, !.cost = cost]
        ELSE activity

\* line 149, after SmoothedActivity
HistoryAfter(activity, history) ==
    LET cost == SmoothedCost(ReadCost(activity), HistoryOf(history, CategoryOf(activity)))
    IN  IF cost # 0 THEN _record_history(history, CategoryOf(activity), cost) ELSE history

\* lines 133-149: the activities of one day from the k-th on; <<activities, history>>
RECURSIVE SmoothActivities(_, _, _)
SmoothActivities(activities, k, history) ==
    IF k > Len(activities) THEN <<activities, history>>
    ELSE SmoothActivities([activities EXCEPT ![k] = SmoothedActivity(@, history)],
                          k + 1, HistoryAfter(activities[k], history))

\* lines 128-152: the days from the i-th on; <<schedule, history>>
RECURSIVE _smooth_cost_outliers(_, _, _)
_smooth_cost_outliers(schedule, i, history) ==
    IF i > Len(schedule) THEN <<schedule, history>>
    ELSE LET done == SmoothActivities(schedule[i].activities, 1, history)
         IN  _smooth_cost_outliers([schedule EXCEPT ![i].activities = done[1]],
                                   i + 1, done[2])

(***************************************************************************)
(* api.py: hotel injection.  The itinerary's own 'meta' map is the         *)
(* variable itinerary_meta; a day's meta flags are fields of the day.      *)
(***************************************************************************)
Prefix(s, n) == SubSeq(s, 1, Min(Len(s), n))

\* lines 185-193
CheckInEntry(first_day, hotels) ==
    [time |-> IF first_day.activities # <<>> /\ first_day.activities[1].time # NoMatch
              THEN first_day.activities[1].time ELSE <<9, 0, "">>,
     activity |-> "Check-in",
     duration_minutes |-> 0,
     cost |-> NoCost,
     estimated_cost |-> 0,
     category |-> "lodging"]

\* Mutant of InjectHotelSchedule: the lodging_injected flag is not tested.
InjectHotelSchedule_NoGuard(schedule, hotels) ==
    IF hotels = <<>> \/ schedule = <<>> THEN schedule
    ELSE [schedule EXCEPT ![1] =
            [@ EXCEPT !.lodging_injected = TRUE,
                      !.lodging = Prefix(hotels, 3),
                      !.activities = <<CheckInEntry(schedule[1], hotels)>> \o @]]

\* lines 161-196 on the schedule
InjectHotelSchedule(schedule, hotels) ==
    IF hotels = <<>> \/ schedule = <<>> \/ schedule[1].lodging_injected THEN schedule
    ELSE [schedule EXCEPT ![1] =
            [@ EXCEPT !.lodging_injected = TRUE,
                      !.lodging = Prefix(hotels, 3),
                      !.activities = <<CheckInEntry(schedule[1], hotels)>> \o @]]

\* line 160 on the itinerary's meta
InjectHotelMeta(meta, hotels) ==
    IF hotels = <<>> THEN meta
    ELSE [k \in DOMAIN meta \cup {"hotels"} |->
            IF k = "hotels" THEN Prefix(hotels, 5) ELSE meta[k]]

(***************************************************************************)
(* api.py: transport injection.  A converted amount is a fraction <<n, d>>;*)
(* an exchange rate is a fraction too.                                     *)
(***************************************************************************)
_travel_keywords ==
    {"depart", "departure", "flight", "train", "transfer", "journey", "travel", "transit"}

NoSummary == <<>>
NoRate == <<>>

\* f with key k set to v
SetKey(f, k, v) == [x \in DOMAIN f \cup {k} |-> IF x = k THEN v ELSE f[x]]

\* lines 233-240
_quote_total_cost(quote, fallback_travelers) ==
    IF quote.group_price # None THEN quote.group_price
    ELSE quote.price_per_person *
            Max(1, IF quote.travelers # 0 THEN quote.travelers
                   ELSE IF fallback_travelers # 0 THEN fallback_travelers ELSE 1)

\* Mutant of BestQuote: the first quote of the set.
BestQuote_First(quotes, travelers) == quotes[1]

\* line 272: min(quotes, key=...), the first quote of least total
BestQuote(quotes, travelers) ==
    LET least == SetMin({_quote_total_cost(quotes[i], travelers) : i \in 1..Len(quotes)})
        first == SetMin({i \in 1..Len(quotes) : _quote_total_cost(quotes[i], travelers) = least})
    IN  quotes[first]

\* (currency or 'USD').upper()
CurrencyCode(currency) == IF currency = "" THEN "USD" ELSE currency

\* lines 221-229: the rate used for a currency that is not USD; lookup is
\* what get_exchange_rate answers (NoRate: it failed or found no rate)
RateFor(cache, code, lookup) ==
    IF code \in DOMAIN cache THEN cache[code]
    ELSE IF lookup = NoRate \/ lookup[1] = 0 THEN <<1, 1>>
    ELSE lookup

\* lines 213-230: the converted amount
_convert_to_usd(amount, currency, cache, lookup) ==
    IF amount <= 0 THEN <<0, 1>>
    ELSE IF CurrencyCode(currency) = "USD" THEN <<amount, 1>>
    ELSE <<amount * RateFor(cache, CurrencyCode(currency), lookup)[1],
           RateFor(cache, CurrencyCode(currency), lookup)[2]>>

\* lines 221-229: the cache after the conversion
CacheAfterConvert(amount, currency, cache, lookup) ==
    IF amount <= 0 \/ CurrencyCode(currency) = "USD" \/ CurrencyCode(currency) \in DOMAIN cache
    THEN cache
    ELSE SetKey(cache, CurrencyCode(currency), RateFor(cache, CurrencyCode(currency), lookup))

DayKeywords(day) ==
    KeywordsIn(day.theme)
        \cup UNION {KeywordsIn(day.activities[i].activity) : i \in 1..Len(day.activities)}
        \cup UNION {KeywordsIn(day.meals[i].restaurant) : i \in 1..Len(day.meals)}

\* lines 243-256: the index of the travel day
_find_travel_day(schedule) ==
    LET hits == {i \in 1..Len(schedule) : DayKeywords(schedule[i]) \cap _travel_keywords # {}}
    IN  IF hits = {} THEN 1 ELSE SetMin(hits)

\* lines 303-310
TransportEntry(best_quote, entry_cost) ==
    [time |-> IF best_quote.departure # NoMatch THEN best_quote.departure ELSE <<8, 0, "">>,
     activity |-> IF best_quote.mode = "train" THEN "Train via carrier" ELSE "Flight via carrier",
     duration_minutes |-> 0,
     cost |-> entry_cost,
     estimated_cost |-> NoCost,
     category |-> ""]

\* lines 327-336
TransportSummary(best_quote, native_total, entry_cost, travel_day) ==
    [quote_id |-> best_quote.id,
     mode |-> best_quote.mode,
     currency |-> CurrencyCode(best_quote.currency),
     native_amount |-> native_total,
     usd_amount |-> entry_cost,
     travel_day |-> travel_day]

\* Mutant of BudgetWithTransport: the estimate is set to the entry's cost.
BudgetWithTransport_Overwrite(budget, entry_cost, summary) ==
    LET breakdown == IF "breakdown" \in DOMAIN budget THEN budget.breakdown ELSE <<>>
        bucket == IF "transport" \in DOMAIN breakdown THEN breakdown.transport ELSE <<>>
        meta == IF "meta" \in DOMAIN budget THEN budget.meta ELSE <<>>
    IN  SetKey(SetKey(budget, "breakdown",
                      SetKey(breakdown, "transport",
                             SetKey(bucket, "estimated", entry_cost))),
               "meta", SetKey(meta, "transport_quote", summary))

\* lines 315-325 and 339: the budget document after the injection
BudgetWithTransport(budget, entry_cost, summary) ==
    LET breakdown == IF "breakdown" \in DOMAIN budget THEN budget.breakdown ELSE <<>>
        bucket == IF "transport" \in DOMAIN breakdown THEN breakdown.transport ELSE <<>>
        estimated == IF "estimated" \in DOMAIN bucket THEN _safe_int(bucket.estimated) ELSE 0
        meta == IF "meta" \in DOMAIN budget THEN budget.meta ELSE <<>>
    IN  SetKey(SetKey(budget, "breakdown",
                      SetKey(breakdown, "transport",
                             SetKey(bucket, "estimated", estimated + entry_cost))),
               "meta", SetKey(meta, "transport_quote", summary))

\* Mutant of TransportSkipped: the test usd_total <= 0 left out.
TransportSkipped_NoAmountTest(schedule, options, cache, lookup) ==
    options.quotes = <<>> \/ schedule = <<>>

\* Whether _inject_transport_costs returns early: lines 260-279.
TransportSkipped(schedule, options, cache, lookup) ==
    \/ options.quotes = <<>>
    \/ schedule = <<>>
    \/ LET best == BestQuote(options.quotes, options.travelers)
           usd == _convert_to_usd(_quote_total_cost(best, options.travelers),
                                  best.currency, cache, lookup)
       IN  usd[1] <= 0

\* lines 259-341: [itinerary, meta, budget, summary, cache] after the call
_inject_transport_costs(schedule, meta, budget, options, cache, lookup) ==
    IF options.quotes = <<>> \/ schedule = <<>>
    THEN [itinerary |-> schedule, meta |-> meta, budget |-> budget,
          summary |-> NoSummary, cache |-> cache]
    ELSE
    LET travelers == IF options.travelers = 0 THEN 1 ELSE options.travelers
        best == BestQuote(options.quotes, travelers)
        native_total == _quote_total_cost(best, travelers)
        usd == _convert_to_usd(native_total, best.currency, cache, lookup)
        cache2 == CacheAfterConvert(native_total, best.currency, cache, lookup)
        entry_cost == _safe_int(Round(usd[1], usd[2]))
        target == _find_travel_day(schedule)
        summary == TransportSummary(best, native_total, entry_cost, schedule[target].day)
    IN  IF TransportSkipped(schedule, options, cache, lookup)
        THEN [itinerary |-> schedule, meta |-> meta, budget |-> budget,
              summary |-> NoSummary, cache |-> cache2]
        ELSE [itinerary |->
                [schedule EXCEPT ![target] =
                    [@ EXCEPT !.activities = <<TransportEntry(best, entry_cost)>> \o @,
                              !.total_cost = _safe_int(@) + entry_cost]],
              meta |-> SetKey(meta, "transport_quote", summary),
              budget |-> BudgetWithTransport(budget, entry_cost, summary),
              summary |-> summary,
              cache |-> cache2]

(***************************************************************************)
(* api.py: the TTL cache and the get-or-fetch wrapper.  A payload is a     *)
(* mutable object: heap maps an object (its index) to its contents, and a  *)
(* name bound to a payload holds the object, not the contents.  The quote  *)
(* cache of transport_pricing.py (_cached_quotes, _store_cached_quotes) is *)
(* the same code with another TTL.                                         *)
(***************************************************************************)
CACHE_TTL_SECONDS == 3600

\* Mutant of copy_deepcopy: the object itself is handed on.
copy_deepcopy_SameObject(h, obj) == obj

\* copy.deepcopy(obj) in heap h: the copy is a new object, the next free index
copy_deepcopy(h, obj) == Len(h) + 1

\* The heap after copy.deepcopy(obj).
HeapAfterCopy(h, obj) == Append(h, h[obj])

DropKey(f, k) == [x \in DOMAIN f \ {k} |-> f[x]]

\* lines 77-84: [cache, heap, value] after _get_cached_entry(cache, key) at time t
_get_cached_entry(cache, h, key, t) ==
    IF key \notin DOMAIN cache
    THEN [cache |-> cache, heap |-> h, value |-> None]
    ELSE IF t - cache[key].ts > CACHE_TTL_SECONDS
    THEN [cache |-> DropKey(cache, key), heap |-> h, value |-> None]
    ELSE [cache |-> cache, heap |-> HeapAfterCopy(h, cache[key].data),
          value |-> copy_deepcopy(h, cache[key].data)]

\* lines 87-91: [cache, heap] after _set_cache_entry(cache, key, data) at time t
_set_cache_entry(cache, h, key, data, t) ==
    [cache |-> SetKey(cache, key, [data |-> copy_deepcopy(h, data), ts |-> t]),
     heap |-> HeapAfterCopy(h, data)]

\* Python truth of a payload reference: None and empty lists are false.
Truthy(h, obj) == obj # None /\ h[obj] # <<>>

\* Mutant of FetchOutcome: no try / except around the fetcher.
FetchOutcome_NoTry(h, fetched, fallback) ==
    IF fetched.raises THEN [raised |-> TRUE, heap |-> h, data |-> None]
    ELSE IF fetched.contents # <<>>
    THEN [raised |-> FALSE, heap |-> Append(h, fetched.contents), data |-> Len(h) + 1]
    ELSE IF Truthy(h, fallback) THEN [raised |-> FALSE, heap |-> h, data |-> fallback]
    ELSE [raised |-> FALSE, heap |-> Append(h, <<>>), data |-> Len(h) + 1]

\* lines 98-102: data = fetcher() or fallback or [], and fallback or [] when
\* the fetcher raises; fetched tells whether it raises and what it returns
FetchOutcome(h, fetched, fallback) ==
    IF ~fetched.raises /\ fetched.contents # <<>>
    THEN [raised |-> FALSE, heap |-> Append(h, fetched.contents), data |-> Len(h) + 1]
    ELSE IF Truthy(h, fallback) THEN [raised |-> FALSE, heap |-> h, data |-> fallback]
    ELSE [raised |-> FALSE, heap |-> Append(h, <<>>), data |-> Len(h) + 1]

\* Mutant of _cached_geo_result: what stands in for a failed or empty fetch
\* is returned without being stored.
_cached_geo_result_FallbackNotStored(cache, h, key, fetched, fallback, t) ==
    LET cached == _get_cached_entry(cache, h, key, t)
        outcome == FetchOutcome(cached.heap, fetched, fallback)
        set == _set_cache_entry(cached.cache, outcome.heap, key, outcome.data, t)
    IN  IF cached.value # None
        THEN [raised |-> FALSE, cache |-> cached.cache, heap |-> cached.heap,
              value |-> cached.value, invoked |-> FALSE]
        ELSE IF fetched.raises \/ fetched.contents = <<>>
        THEN [raised |-> FALSE, cache |-> cached.cache, heap |-> outcome.heap,
              value |-> outcome.data, invoked |-> TRUE]
        ELSE [raised |-> FALSE, cache |-> set.cache, heap |-> set.heap, value |-> outcome.data,
              invoked |-> TRUE]

\* lines 94-104: [raised, cache, heap, value, invoked] after
\* _cached_geo_result; invoked tells whether the fetcher was called
_cached_geo_result(cache, h, key, fetched, fallback, t) ==
    LET cached == _get_cached_entry(cache, h, key, t)
        outcome == FetchOutcome(cached.heap, fetched, fallback)
        set == _set_cache_entry(cached.cache, outcome.heap, key, outcome.data, t)
    IN  IF cached.value # None
        THEN [raised |-> FALSE, cache |-> cached.cache, heap |-> cached.heap,
              value |-> cached.value, invoked |-> FALSE]
        ELSE IF outcome.raised
        THEN [raised |-> TRUE, cache |-> cached.cache, heap |-> cached.heap, value |-> None,
              invoked |-> TRUE]
        ELSE [raised |-> FALSE, cache |-> set.cache, heap |-> set.heap, value |-> outcome.data,
              invoked |-> TRUE]

(***************************************************************************)
(* planner.py: _parse_json_safe.  A text is a sequence of tokens (white    *)
(* space between tokens carries no meaning to json.loads or to any of the  *)
(* regular expressions used): punctuation, numbers, string literals, the   *)
(* JSON literals, and words of prose or code-fence markers.                *)
(***************************************************************************)
Punct(s) == [k |-> "p", s |-> s, n |-> 0]
Num(n) == [k |-> "n", s |-> "", n |-> n]
Str(s) == [k |-> "s", s |-> s, n |-> 0]
Lit(s) == [k |-> "l", s |-> s, n |-> 0]
Word(s) == [k |-> "w", s |-> s, n |-> 0]

\* The code-fence markers: three backquotes, and three backquotes and json.
Fence == Word("fence")
FenceJson == Word("fence json")

Fail == [ok |-> FALSE, val |-> <<>>, next |-> 0]

IsPunct(t, i, s) == i <= Len(t) /\ t[i] = Punct(s)

\* json.loads, by recursive descent: [ok, val, next] for the value at t[i..]
RECURSIVE ParseValue(_, _), ParseMembers(_, _, _), ParseElements(_, _, _)
ParseValue(t, i) ==
    IF i > Len(t) THEN Fail
    ELSE CASE t[i].k = "n" -> [ok |-> TRUE, val |-> t[i].n, next |-> i + 1]
           [] t[i].k = "s" -> [ok |-> TRUE, val |-> t[i].s, next |-> i + 1]
           [] t[i].k = "l" -> [ok |-> TRUE,
                               val |-> IF t[i].s = "true" THEN TRUE
                                       ELSE IF t[i].s = "false" THEN FALSE ELSE None,
                               next |-> i + 1]
           [] t[i] = Punct("-") ->
                IF i + 1 <= Len(t) /\ t[i + 1].k = "n"
                THEN [ok |-> TRUE, val |-> 0 - t[i + 1].n, next |-> i + 2] ELSE Fail
           [] t[i] = Punct("{") ->
                IF IsPunct(t, i + 1, "}") THEN [ok |-> TRUE, val |-> <<>>, next |-> i + 2]
                ELSE ParseMembers(t, i + 1, <<>>)
           [] t[i] = Punct("[") ->
                IF IsPunct(t, i + 1, "]") THEN [ok |-> TRUE, val |-> <<>>, next |-> i + 2]
                ELSE ParseElements(t, i + 1, <<>>)
           [] OTHER -> Fail

\* the members of an object from t[i] on: "key" : value, then , or }
ParseMembers(t, i, acc) ==
    IF ~(i + 1 <= Len(t) /\ t[i].k = "s" /\ t[i + 1] = Punct(":")) THEN Fail
    ELSE LET v == ParseValue(t, i + 2)
         IN  IF ~v.ok THEN Fail
             ELSE IF IsPunct(t, v.next, ",")
             THEN ParseMembers(t, v.next + 1, SetKey(acc, t[i].s, v.val))
             ELSE IF IsPunct(t, v.next, "}")
             THEN [ok |-> TRUE, val |-> SetKey(acc, t[i].s, v.val), next |-> v.next + 1]
             ELSE Fail

\* the elements of an array from t[i] on: value, then , or ]
ParseElements(t, i, acc) ==
    LET v == ParseValue(t, i)
    IN  IF ~v.ok THEN Fail
        ELSE IF IsPunct(t, v.next, ",") THEN ParseElements(t, v.next + 1, Append(acc, v.val))
        ELSE IF IsPunct(t, v.next, "]")
        THEN [ok |-> TRUE, val |-> Append(acc, v.val), next |-> v.next + 1]
        ELSE Fail

\* json.loads(text): the whole text must be one value
json_loads(t) ==
    LET v == ParseValue(t, 1)
    IN  IF v.ok /\ v.next = Len(t) + 1 THEN v ELSE Fail

\* lines 20-21: a text that starts with a fence loses every fence marker
StripFences(t) ==
    IF t # <<>> /\ t[1] \in {Fence, FenceJson}
    THEN SelectSeq(t, LAMBDA tok : tok \notin {Fence, FenceJson})
    ELSE t

\* lines 30-33: text[text.find("{") : text.rfind("}") + 1], <<>> when the
\* condition of line 32 fails
Sliced(t) ==
    LET opens == {i \in 1..Len(t) : t[i] = Punct("{")}
        closes == {i \in 1..Len(t) : t[i] = Punct("}")}
    IN  IF opens # {} /\ closes # {} /\ SetMax(closes) >= SetMin(opens)
        THEN SubSeq(t, SetMin(opens), SetMax(closes)) ELSE <<>>

\* Mutant of RemoveTrailingCommas: the text is left as it is.
RemoveTrailingCommas_Kept(t) == t

\* line 40: re.sub(r",\s*([}\]])", r"\1", text)
RemoveTrailingCommas(t) ==
    LET doomed == {i \in 1..Len(t) : t[i] = Punct(",")
                                     /\ (IsPunct(t, i + 1, "}") \/ IsPunct(t, i + 1, "]"))}
        kept == {i \in 1..Len(t) : i \notin doomed}
    IN  [j \in 1..Cardinality(kept) |->
            t[CHOOSE i \in kept : Cardinality({x \in kept : x < i}) = j - 1]]

\* line 43: re.sub(r",\s*,", ",", text), matches taken left to right
RECURSIVE RemoveDuplicateCommas(_)
RemoveDuplicateCommas(t) ==
    IF Len(t) < 2 THEN t
    ELSE IF t[1] = Punct(",") /\ t[2] = Punct(",")
    THEN <<Punct(",")>> \o RemoveDuplicateCommas(SubSeq(t, 3, Len(t)))
    ELSE <<t[1]>> \o RemoveDuplicateCommas(Tail(t))

\* lines 47-60: every number - number becomes the integer midpoint
RECURSIVE ReplaceRanges(_)
ReplaceRanges(t) ==
    IF Len(t) < 3 THEN t
    ELSE IF t[1].k = "n" /\ t[2] = Punct("-") /\ t[3].k = "n"
    THEN <<Num((t[1].n + t[3].n) \div 2)>> \o ReplaceRanges(SubSeq(t, 4, Len(t)))
    ELSE <<t[1]>> \o ReplaceRanges(Tail(t))

\* lines 40-60: the repairs, in order
Cleaned(t) == ReplaceRanges(RemoveDuplicateCommas(RemoveTrailingCommas(t)))

Returned(val) == [raised |-> FALSE, error |-> "", value |-> val]
Raised(error) == [raised |-> TRUE, error |-> error, value |-> <<>>]

\* lines 14-73
_parse_json_safe(t) ==
    LET stripped == StripFences(t)
        sliced == Sliced(stripped)
        repaired == Cleaned(IF sliced # <<>> THEN sliced ELSE stripped)
    IN  IF t = <<>> THEN Raised("ValueError")
        ELSE IF json_loads(stripped).ok THEN Returned(json_loads(stripped).val)
        ELSE IF sliced # <<>> /\ json_loads(sliced).ok THEN Returned(json_loads(sliced).val)
        ELSE IF json_loads(repaired).ok THEN Returned(json_loads(repaired).val)
        ELSE Raised("JSONDecodeError")

(***************************************************************************)
(* Documents the generator may return.                                     *)
(***************************************************************************)
Activity(c) == [activity |-> "Visit", cost |-> c]
Meal(c) == [restaurant |-> "Cafe", cost |-> c]

\* A day whose entries cost `costs`, the last m of them being meals.
RawDay(index, costs, m) ==
    LET n == Len(costs)
        k == n - Min(m, n)
    IN  [day |-> index,
         activities |-> [i \in 1..k |-> Activity(costs[i])],
         meals |-> [i \in 1..(n - k) |-> Meal(costs[k + i])],
         total_cost |-> RawTotal]

\* How many of a day's entries are meals.
MealSplits == {0, 2}

\* A second day, over its cap for every request of Requests.
SampleDay == RawDay(2, <<60, 60, 60, 40, 30>>, 2)

\* One day, or that day followed by SampleDay.
RawItinerary(costs, m, two_days) ==
    IF two_days THEN <<RawDay(1, costs, m), SampleDay>> ELSE <<RawDay(1, costs, m)>>

\* The variables of an operation that is not running.
MealIdle == day_activities = <<>> /\ scheduled = <<>>
PipeIdle ==
    /\ itinerary_meta = <<>> /\ meal_pois = <<>> /\ hotel_recs = <<>>
    /\ transport_options = <<>> /\ transport_summary = <<>>
    /\ _exchange_rate_cache = <<>> /\ _cost_history = <<>>
DocIdle ==
    /\ total_budget = 0 /\ days = 0
    /\ itinerary_raw = <<>> /\ itinerary = <<>>
    /\ budget_raw = <<>> /\ budget_info = <<>>
SmoothIdle == smoothing = <<>>
CacheIdle ==
    /\ _poi_cache = <<>> /\ now = 0 /\ heap = <<>> /\ held = {}
    /\ stored = <<>> /\ geo_result = <<>>
AgentIdle == attempt = 0 /\ response = <<>> /\ waits = <<>> /\ agent_result = <<>>
ParseIdle == text = <<>> /\ parsed = <<>>
ReqIdle ==
    /\ request = <<>> /\ _hotel_cache = <<>> /\ external_calls = 0
    /\ http = <<>> /\ rate_ts = <<>> /\ inflight = <<>>
SvcIdle == SmoothIdle /\ CacheIdle /\ AgentIdle /\ ParseIdle /\ ReqIdle

(***************************************************************************)
(* Specification of the itinerary cost normalizer: the function applied    *)
(* MaxCalls times in a row to a document the generator may return.         *)
(***************************************************************************)
NormInit ==
    /\ pc = "normalize_itinerary_costs"
    /\ calls = 0
    /\ \E r \in Requests : total_budget = r[1] /\ days = r[2]
    /\ \E costs \in SeqsUpTo(RawCosts, MaxEntries), m \in MealSplits, two_days \in BOOLEAN :
            itinerary_raw = RawItinerary(costs, m, two_days)
    /\ itinerary = itinerary_raw
    /\ budget_raw = <<>>
    /\ budget_info = <<>>
    /\ MealIdle
    /\ PipeIdle
    /\ SvcIdle

NormalizeItineraryCosts ==
    /\ pc = "normalize_itinerary_costs"
    /\ calls < MaxCalls
    /\ itinerary' = normalize_itinerary_costs(itinerary, total_budget, days)
    /\ calls' = calls + 1
    /\ UNCHANGED <<svcVars, pc, total_budget, days, itinerary_raw, budget_raw, budget_info, mealVars, pipeVars>>

NormNext == NormalizeItineraryCosts

SpecNorm == NormInit /\ [][NormNext]_vars

\* C1: after normalize_itinerary_costs every day's total_cost is the sum of
\* the cost fields of its activities and meals as they stand after the call.
C1_TotalIsSum ==
    calls >= 1 =>
        \A i \in 1..Len(itinerary) : itinerary[i].total_cost = DayEntrySum(itinerary[i])

\* C1 witness: a normalized two-day document with a day that was rescaled
\* and whose total is no longer the generator's.
C1_Witness ==
    /\ calls = 1
    /\ Len(itinerary) = 2
    /\ itinerary[1].total_cost > 0
    /\ itinerary[1].total_cost # RawTotal
    /\ CostsOf(itinerary[1].activities) # CostsOf(itinerary_raw[1].activities)
    /\ Len(itinerary[1].meals) = 2

\* C2: after normalize_itinerary_costs no day's total_cost exceeds
\* per_day_cap = max(60, (budget/days) * 1.2), rescaled days included.
C2_TotalWithinCap ==
    calls >= 1 =>
        \A i \in 1..Len(itinerary) :
            itinerary[i].total_cost * PerDayCapD(days) <= PerDayCapN(total_budget, days)

\* C4: normalize_itinerary_costs is idempotent: a second application to its
\* own output changes no entry cost and no day's total_cost.
C4_Idempotent == [][calls >= 1 => itinerary' = itinerary]_vars

\* The scenario of C10: one day, activities costing [40, 60, 30], no meals,
\* budget 300 and 5 days, normalized once.
C10_Scenario ==
    /\ calls = 1
    /\ total_budget = 300 /\ days = 5
    /\ Len(itinerary_raw) = 1
    /\ CostsOf(itinerary_raw[1].activities) = <<40, 60, 30>>
    /\ itinerary_raw[1].meals = <<>>

\* C10 as claimed: per_day_cap = 72 and per_entry_cap = 36; the entries are
\* clamped to [36, 36, 30] and rescaled by 72/102 to [25, 25, 21], total 71.
C10_AsClaimed ==
    C10_Scenario =>
        /\ PerDayCapN(total_budget, days) = 72 * PerDayCapD(days)
        /\ PerEntryCapN(total_budget, days) = 36 * PerEntryCapD(days)
        /\ CostsOf(itinerary[1].activities) = <<25, 25, 21>>
        /\ itinerary[1].total_cost = 71

\* C10 amended: per_day_cap = 72 and per_entry_cap = 21 (the term
\* (budget/days) * 0.35 = 21 is the smallest); the entries are clamped to
\* [21, 21, 21], whose sum 63 is within the day cap, so nothing is rescaled
\* and total_cost = 63.
C10_Amended ==
    C10_Scenario =>
        /\ PerDayCapN(total_budget, days) = 72 * PerDayCapD(days)
        /\ PerEntryCapN(total_budget, days) = 21 * PerEntryCapD(days)
        /\ CostsOf(itinerary[1].activities) = <<21, 21, 21>>
        /\ itinerary[1].total_cost = 63

\* C10 witness: the scenario after the call.
C10_Witness == C10_Scenario /\ itinerary[1].total_cost = 63

(***************************************************************************)
(* Budget documents the generator may return.                              *)
(***************************************************************************)
\* The amounts the generator may write into a budget field.
RawAmounts == {NoCost, 50, 200, 400}

\* (total_budget, daily_budget) as the generator may write them.
RawCeilings == {<<NoCost, NoCost>>, <<400, 9999>>, <<9999, 30>>}

\* (budget, days) of a request, for the budget normalizer.
BudgetRequests == {<<500, 1>>, <<600, 1>>, <<900, 7>>}

RawBreakdown(a, n, f, ac, t, c, has_transport) ==
    LET full == [accommodation |-> [per_night |-> n, nights |-> 1, subtotal |-> a],
                 food |-> [per_day |-> f, days |-> 1, subtotal |-> f],
                 activities |-> [estimated |-> ac],
                 transport |-> [estimated |-> t],
                 contingency |-> [percent |-> 10, amount |-> c]]
    IN  IF has_transport THEN full
        ELSE [key \in DOMAIN full \ {"transport"} |-> full[key]]

RawBudget(ceil, a, n, f, ac, t, c, has_transport) ==
    [total_budget |-> ceil[1], daily_budget |-> ceil[2],
     breakdown |-> RawBreakdown(a, n, f, ac, t, c, has_transport)]

(***************************************************************************)
(* Specification of the budget normalizer: the function applied MaxCalls   *)
(* times in a row to a document the generator may return.                  *)
(***************************************************************************)
BudgetInit ==
    /\ pc = "normalize_budget_estimate"
    /\ calls = 0
    /\ \E r \in BudgetRequests : total_budget = r[1] /\ days = r[2]
    /\ \E ceil \in RawCeilings, a \in RawAmounts, n \in {NoCost, 400}, f \in RawAmounts,
          ac \in RawAmounts, t \in RawAmounts, c \in RawAmounts, has_transport \in BOOLEAN :
            /\ (~has_transport => t = NoCost)
            /\ budget_raw = RawBudget(ceil, a, n, f, ac, t, c, has_transport)
    /\ budget_info = budget_raw
    /\ itinerary_raw = <<>>
    /\ itinerary = <<>>
    /\ MealIdle
    /\ PipeIdle
    /\ SvcIdle

NormalizeBudgetEstimate ==
    /\ pc = "normalize_budget_estimate"
    /\ calls < MaxCalls
    /\ budget_info' = normalize_budget_estimate(budget_info, total_budget, days)
    /\ calls' = calls + 1
    /\ UNCHANGED <<svcVars, pc, total_budget, days, itinerary_raw, itinerary, budget_raw, mealVars, pipeVars>>

BudgetNext == NormalizeBudgetEstimate

SpecBudget == BudgetInit /\ [][BudgetNext]_vars

\* C3: after normalize_budget_estimate the sum of the category totals is at
\* most the user's budget ceiling safe_total, the rescaled breakdowns included.
C3_CategoriesWithinBudget ==
    calls >= 1 => CategorySum(budget_info.breakdown) <= SafeTotal(total_budget)

\* C5: normalize_budget_estimate is idempotent: a second application to its
\* own output changes no field of the budget document.
C5_Idempotent == [][calls >= 1 => budget_info' = budget_info]_vars

(***************************************************************************)
(* Specification of the meal scheduler: schedule_meals applied to an       *)
(* activity list the generator may return.                                 *)
(***************************************************************************)
MaxActivities == 2      \* activities of the day given to schedule_meals

\* time texts: none, "09:00", "12:00", "7 pm", "23:55"
TimeTexts == {NoMatch, <<9, 0, "">>, <<12, 0, "">>, <<7, NoGroup, "pm">>, <<23, 55, "">>}

\* duration_minutes: missing (0), below and above the clamp [30, 360]
Durations == {0, 20, 400}

Labels == {"Museum visit", "Train to the coast", "Ferry crossing"}

TimedActivities ==
    [time : TimeTexts, duration_minutes : Durations, activity : Labels]

MealInit ==
    /\ pc = "schedule_meals"
    /\ calls = 0
    /\ day_activities \in SeqsUpTo(TimedActivities, MaxActivities)
    /\ scheduled = <<>>
    /\ DocIdle
    /\ PipeIdle
    /\ SvcIdle

ScheduleMeals ==
    /\ pc = "schedule_meals"
    /\ calls = 0
    /\ scheduled' = schedule_meals(day_activities)
    /\ calls' = 1
    /\ UNCHANGED <<svcVars, pc, docVars, day_activities, pipeVars>>

MealNext == ScheduleMeals

SpecMeals == MealInit /\ [][MealNext]_vars

\* C7: schedule_meals returns at most 3 slots, whichever windows qualify and
\* whether or not the fallback snack is synthesized.
C7_AtMostThreeSlots == calls = 1 => Len(scheduled) <= 3

\* C7 witness: all four candidate windows qualify (a day from 09:00 with no
\* travel entry) and three slots are returned.
C7_Witness ==
    /\ calls = 1
    /\ Len(scheduled) = 3
    /\ day_activities # <<>>
    /\ \A i \in 1..Len(MEAL_WINDOWS) :
        /\ ~_window_overlaps_travel(MEAL_WINDOWS[i], day_activities)
        /\ MEAL_WINDOWS[i].end >= _infer_day_window(day_activities)[1] - 60
        /\ MEAL_WINDOWS[i].start <= _infer_day_window(day_activities)[2] + 60

\* C8: no returned slot (a candidate window or the synthesized snack) has a
\* window that overlaps the [time, time + duration] span of a travel-tagged
\* activity whose time parses.
C8_NoSlotOverlapsTravel ==
    calls = 1 =>
        \A k \in 1..Len(scheduled) :
            ~_window_overlaps_travel(
                [start |-> scheduled[k].window[1], end |-> scheduled[k].window[2]],
                day_activities)

\* C27: with a parsable time the window runs from the least time to the
\* greatest, the end extended to a span of 840 minutes and capped at 23:59
\* (1439); with none it is 08:00 to 22:00.
C27_DayWindowCappedAt2359 ==
    calls = 1 =>
        LET times == ParsedTimes(day_activities)
            window == _infer_day_window(day_activities)
        IN  IF times = {} THEN window = <<8 * 60, 22 * 60>>
            ELSE /\ window[1] = SetMin(times)
                 /\ window[2] = Min(Max(SetMax(times), SetMin(times) + 840), 1439)

\* C28: the day window has day_start <= day_end, and the time of every
\* scheduled meal lies between the two.
C28_DayWindowOrdered ==
    calls = 1 =>
        LET window == _infer_day_window(day_activities)
        IN  /\ window[1] <= window[2]
            /\ \A k \in 1..Len(scheduled) :
                   /\ scheduled[k].time[1] * 60 + scheduled[k].time[2] >= window[1]
                   /\ scheduled[k].time[1] * 60 + scheduled[k].time[2] <= window[2]

(***************************************************************************)
(* Specification of one generate_itinerary request from the generator's    *)
(* answer on (api.py 513-542): first normalization, meal merge and second  *)
(* normalization, hotel injection, budget normalization, transport         *)
(* injection, outlier smoothing.  The generator's documents, the fetched   *)
(* POIs, hotels and quotes, and the cost history earlier requests left are *)
(* inputs.                                                                 *)
(***************************************************************************)
MaxDays == 2        \* days of the generated itinerary
MaxQuotes == 2      \* quotes build_transport_pricing returned

PipelineRequests == {<<500, 5>>, <<600, 1>>}

Entry(time, label, duration, cost, estimated, category) ==
    [time |-> time, activity |-> label, duration_minutes |-> duration, cost |-> cost,
     estimated_cost |-> estimated, category |-> category]

Museum == Entry(<<9, 0, "">>, "Museum visit", 0, 30, NoCost, "Museum")
Gallery == Entry(<<12, 0, "">>, "Museum visit", 0, 60, NoCost, "museum")
TrainRide == Entry(<<7, NoGroup, "pm">>, "Train to the coast", 400, 40, NoCost, "")
Walk == Entry(NoMatch, "Museum visit", 20, 7, 50, "")

Lunch(c) == [time |-> <<13, 0, "">>, type |-> "Lunch", restaurant |-> "Cafe", cost |-> c]

\* The days the generator may write; index is the day's 'day' field.
GeneratedDay(kind, index) ==
    LET body == CASE kind = 1 -> [theme |-> "City highlights", activities |-> <<Museum, Gallery>>,
                                  meals |-> <<Lunch(40)>>]
                  [] kind = 2 -> [theme |-> "Coast by train", activities |-> <<TrainRide>>,
                                  meals |-> <<>>]
                  [] kind = 3 -> [theme |-> "Old town", activities |-> <<Walk, Museum>>,
                                  meals |-> <<Lunch(NoCost)>>]
    IN  [day |-> index, theme |-> body.theme, activities |-> body.activities,
         meals |-> body.meals, total_cost |-> RawTotal,
         lodging_injected |-> FALSE, meal_source |-> "", lodging |-> <<>>]

DayKinds == {1, 2, 3}

GeneratedBudgets ==
    {RawBudget(<<9999, 30>>, 400, 400, 50, 200, 200, 50, TRUE),
     RawBudget(<<NoCost, NoCost>>, 50, NoCost, 50, 50, NoCost, 50, FALSE)}

FetchedPois == {<<>>, <<[name |-> "Bistro"], [name |-> "Noodle bar"]>>}
FetchedHotels == {<<>>, <<[name |-> "Grand Hotel"]>>}

Quote(id, mode, currency, per_person, group, departure) ==
    [id |-> id, mode |-> mode, currency |-> currency, price_per_person |-> per_person,
     group_price |-> group, travelers |-> 0, departure |-> departure]

SampleQuotes ==
    {Quote("flight-economy", "flight", "USD", 90, 180, <<20, NoGroup, "">>),
     Quote("train-sl", "train", "INR", 4000, None, NoMatch),
     Quote("flight-free", "flight", "", 0, 0, NoMatch)}

\* What get_exchange_rate may answer: nothing, a rate of 0, 1 INR = 1/80 USD.
ExchangeOutcomes == {NoRate, <<0, 1>>, <<1, 80>>}

\* The cost histories earlier requests may have left.
EarlierHistories == {<<>>, [c \in {"museum"} |-> <<20>>]}

\* Mutant of WorkingDocument: the pipeline works on the raw document itself.
WorkingDocument_Raw == "raw"

\* lines 517, 528: the pipeline's documents are copy.deepcopy of the raw ones
WorkingDocument == "copy"

\* The raw document once a step has written `written` to the working one:
\* the steps mutate in place, so a shared document would take the writes.
RawAfter(raw, written) == IF WorkingDocument = "raw" THEN written ELSE raw

PipelineInit ==
    /\ pc = "normalize"
    /\ calls = 0
    /\ \E r \in PipelineRequests : total_budget = r[1] /\ days = r[2]
    /\ \E kinds \in SeqsUpTo(DayKinds, MaxDays) :
        /\ kinds # <<>>
        /\ itinerary_raw = [i \in 1..Len(kinds) |-> GeneratedDay(kinds[i], i)]
    /\ itinerary = <<>>
    /\ itinerary_meta = <<>>
    /\ budget_raw \in GeneratedBudgets
    /\ budget_info = <<>>
    /\ meal_pois \in FetchedPois
    /\ hotel_recs \in FetchedHotels
    /\ \E quotes \in SeqsUpTo(SampleQuotes, MaxQuotes) :
        transport_options = [travelers |-> 2, quotes |-> quotes]
    /\ transport_summary = NoSummary
    /\ _exchange_rate_cache = <<>>
    /\ _cost_history \in EarlierHistories
    /\ MealIdle
    /\ SvcIdle

\* line 517
NormalizeFirstPass ==
    /\ pc = "normalize"
    /\ itinerary' = normalize_itinerary_costs(itinerary_raw, total_budget, days)
    /\ pc' = "meals"
    /\ itinerary_raw' = RawAfter(itinerary_raw, itinerary')
    /\ UNCHANGED <<svcVars, calls, total_budget, days, budget_raw, budget_info,
                   mealVars, pipeVars>>

\* lines 518-520
MergeMeals ==
    /\ pc = "meals"
    /\ itinerary' =
        IF meal_pois # <<>>
        THEN normalize_itinerary_costs(apply_meal_pois(itinerary, meal_pois, itinerary_raw),
                                       total_budget, days)
        ELSE itinerary
    /\ pc' = "hotels"
    /\ itinerary_raw' = RawAfter(itinerary_raw, itinerary')
    /\ UNCHANGED <<svcVars, calls, total_budget, days, budget_raw, budget_info,
                   mealVars, pipeVars>>

\* lines 521-522
InjectHotels ==
    /\ pc = "hotels"
    /\ itinerary' = InjectHotelSchedule(itinerary, hotel_recs)
    /\ itinerary_meta' = InjectHotelMeta(itinerary_meta, hotel_recs)
    /\ pc' = "budget"
    /\ itinerary_raw' = RawAfter(itinerary_raw, itinerary')
    /\ UNCHANGED <<svcVars, calls, total_budget, days, budget_raw, budget_info,
                   mealVars, meal_pois, hotel_recs, transport_options, transport_summary,
                   _exchange_rate_cache, _cost_history>>

\* lines 525-528
NormalizeBudget ==
    /\ pc = "budget"
    /\ budget_info' = normalize_budget_estimate(budget_raw, total_budget, days)
    /\ pc' = "transport"
    /\ budget_raw' = RawAfter(budget_raw, budget_info')
    /\ UNCHANGED <<svcVars, calls, total_budget, days, itinerary_raw, itinerary, mealVars, pipeVars>>

\* lines 537-541
InjectTransport ==
    /\ pc = "transport"
    /\ \E lookup \in ExchangeOutcomes :
        LET out == _inject_transport_costs(itinerary, itinerary_meta, budget_info,
                                           transport_options, _exchange_rate_cache, lookup)
        IN  /\ itinerary' = out.itinerary
            /\ itinerary_meta' = out.meta
            /\ budget_info' = out.budget
            /\ transport_summary' = out.summary
            /\ _exchange_rate_cache' = out.cache
    /\ pc' = "smooth"
    /\ itinerary_raw' = RawAfter(itinerary_raw, itinerary')
    /\ budget_raw' = RawAfter(budget_raw, budget_info')
    /\ UNCHANGED <<svcVars, calls, total_budget, days, mealVars,
                   meal_pois, hotel_recs, transport_options, _cost_history>>

\* line 542
SmoothOutliers ==
    /\ pc = "smooth"
    /\ LET out == _smooth_cost_outliers(itinerary, 1, _cost_history)
       IN  /\ itinerary' = out[1]
           /\ _cost_history' = out[2]
    /\ pc' = "done"
    /\ itinerary_raw' = RawAfter(itinerary_raw, itinerary')
    /\ UNCHANGED <<svcVars, calls, total_budget, days, budget_raw, budget_info,
                   mealVars, itinerary_meta, meal_pois, hotel_recs, transport_options,
                   transport_summary, _exchange_rate_cache>>

PipelineNext ==
    \/ NormalizeFirstPass
    \/ MergeMeals
    \/ InjectHotels
    \/ NormalizeBudget
    \/ InjectTransport
    \/ SmoothOutliers

SpecPipeline == PipelineInit /\ [][PipelineNext]_vars

\* C6: in the itinerary the pipeline returns, every day's total_cost is the
\* sum of the final cost fields of that day's activities and meals.
C6_FinalTotalsConsistent ==
    pc = "done" =>
        \A i \in 1..Len(itinerary) : itinerary[i].total_cost = DayCostSum(itinerary[i])

\* The case of C9: no quote, or a chosen quote whose converted total is <= 0.
C9_NothingToInject ==
    \/ transport_options.quotes = <<>>
    \/ \E lookup \in ExchangeOutcomes :
        _convert_to_usd(
            _quote_total_cost(BestQuote(transport_options.quotes, transport_options.travelers),
                              transport_options.travelers),
            BestQuote(transport_options.quotes, transport_options.travelers).currency,
            _exchange_rate_cache, lookup)[1] <= 0

\* C9: when the quote set is empty or the chosen quote's converted total is
\* <= 0, _inject_transport_costs returns (itinerary, budget, None): no
\* activity is inserted, no total_cost changes, the budget document (its
\* transport.estimated included) is unchanged and no transport_quote
\* metadata is written to either document.
C9_SkippedInjectionIsNoOp ==
    [][(pc = "transport" /\ C9_NothingToInject) =>
            /\ itinerary' = itinerary
            /\ itinerary_meta' = itinerary_meta
            /\ budget_info' = budget_info
            /\ transport_summary' = NoSummary]_vars

\* C9 witness: the step has run on a quote set whose cheapest quote costs
\* nothing, and on an empty quote set it would have been the same.
C9_Witness ==
    /\ pc = "smooth"
    /\ transport_options.quotes # <<>>
    /\ C9_NothingToInject
    /\ transport_summary = NoSummary
    /\ "transport_quote" \notin DOMAIN itinerary_meta
    /\ "meta" \notin DOMAIN budget_info

C17_Total(quote) ==
    IF quote.group_price # None THEN quote.group_price
    ELSE quote.price_per_person * Max(1, transport_options.travelers)

\* The quotes of the set that the applied summary may stand for.
C17_Injected ==
    {i \in 1..Len(transport_options.quotes) :
        /\ transport_options.quotes[i].id = transport_summary'.quote_id
        /\ C17_Total(transport_options.quotes[i]) = transport_summary'.native_amount}

\* C17: when the transport step injects, the injected quote is a quote of the
\* set and no quote of the set has a strictly smaller total, a total being
\* group_price if present and price_per_person * max(1, travelers) otherwise.
C17_InjectedQuoteIsCheapest ==
    [][(pc = "transport" /\ transport_summary' # NoSummary) =>
            /\ C17_Injected # {}
            /\ \A i \in 1..Len(transport_options.quotes) :
                    C17_Total(transport_options.quotes[i]) >= transport_summary'.native_amount]_vars

\* C17 witness: an injection from a set of two quotes of different totals in
\* which the cheaper one comes second.
C17_Witness ==
    /\ pc = "smooth"
    /\ transport_summary # NoSummary
    /\ Len(transport_options.quotes) = 2
    /\ transport_options.quotes[2].id = transport_summary.quote_id
    /\ transport_options.quotes[1].group_price = None
    /\ transport_options.quotes[1].price_per_person * transport_options.travelers
            > transport_summary.native_amount

\* budget.breakdown.transport.estimated before the step, 0 if absent.
C20_EstimatedBefore ==
    IF "breakdown" \in DOMAIN budget_info /\ "transport" \in DOMAIN budget_info.breakdown
       /\ "estimated" \in DOMAIN budget_info.breakdown.transport
    THEN budget_info.breakdown.transport.estimated ELSE 0

\* The budget categories before the step.
C20_Categories ==
    IF "breakdown" \in DOMAIN budget_info THEN DOMAIN budget_info.breakdown ELSE {}

\* C20: when the transport step injects, one activity is inserted, at index 0
\* of the travel day's activities; that day's total_cost and the budget's
\* transport.estimated (created if absent) grow by the cost of the inserted
\* entry; the other days' activities, meals and total_cost and the other
\* budget categories stay as they were.
C20_InjectionFrame ==
    [][(pc = "transport" /\ transport_summary' # NoSummary) =>
            /\ Len(itinerary') = Len(itinerary)
            /\ \E t \in 1..Len(itinerary) :
                /\ itinerary[t].day = transport_summary'.travel_day
                /\ itinerary'[t].activities
                        = <<itinerary'[t].activities[1]>> \o itinerary[t].activities
                /\ itinerary'[t].total_cost
                        = itinerary[t].total_cost + itinerary'[t].activities[1].cost
                /\ budget_info'.breakdown.transport.estimated
                        = C20_EstimatedBefore + itinerary'[t].activities[1].cost
                /\ \A u \in 1..Len(itinerary) \ {t} :
                        /\ itinerary'[u].activities = itinerary[u].activities
                        /\ itinerary'[u].meals = itinerary[u].meals
                        /\ itinerary'[u].total_cost = itinerary[u].total_cost
            /\ DOMAIN budget_info'.breakdown = C20_Categories \cup {"transport"}
            /\ \A c \in C20_Categories \ {"transport"} :
                    budget_info'.breakdown[c] = budget_info.breakdown[c]]_vars

\* C20 witness: an injection into day 2 of two days, with a budget whose
\* breakdown had no transport category before the step.
C20_Witness ==
    /\ pc = "smooth"
    /\ transport_summary # NoSummary
    /\ Len(itinerary) = 2
    /\ transport_summary.travel_day = 2
    /\ Len(itinerary[2].activities) >= 2
    /\ itinerary[2].activities[1].cost = transport_summary.usd_amount
    /\ "transport" \notin DOMAIN budget_raw.breakdown
    /\ budget_info.breakdown.transport.estimated = transport_summary.usd_amount

\* C26: in the budget document the pipeline returns, the category totals of
\* the breakdown sum to no more than the user's total budget.
C26_ReturnedBudgetWithinTotal ==
    pc = "done" => CategorySum(budget_info.breakdown) <= total_budget

(***************************************************************************)
(* Specification of the transport step alone: _inject_transport_costs      *)
(* applied to a normalized itinerary and budget, the days being drawn from *)
(* a wider set of travel wordings than the pipeline's.                     *)
(***************************************************************************)
Ferry == Entry(<<10, 0, "">>, "Ferry crossing", 90, 25, NoCost, "")

\* Days 1 and 2 of the pipeline, a day whose only travel word is ferry, and a
\* day whose theme alone mentions a train.
TransportDay(kind, index) ==
    IF kind \in {1, 2} THEN GeneratedDay(kind, index)
    ELSE LET body == IF kind = 4
                     THEN [theme |-> "Island day", activities |-> <<Ferry, Museum>>,
                           meals |-> <<Lunch(40)>>]
                     ELSE [theme |-> "Coast by train", activities |-> <<Museum>>,
                           meals |-> <<Lunch(40)>>]
         IN  [day |-> index, theme |-> body.theme, activities |-> body.activities,
              meals |-> body.meals, total_cost |-> RawTotal,
              lodging_injected |-> FALSE, meal_source |-> "", lodging |-> <<>>]

TransportDayKinds == {1, 2, 4, 5}

TransportInit ==
    /\ pc = "transport"
    /\ calls = 0
    /\ \E r \in PipelineRequests : total_budget = r[1] /\ days = r[2]
    /\ \E kinds \in SeqsUpTo(TransportDayKinds, MaxDays) :
        /\ kinds # <<>>
        /\ itinerary_raw = [i \in 1..Len(kinds) |-> TransportDay(kinds[i], i)]
    /\ itinerary = normalize_itinerary_costs(itinerary_raw, total_budget, days)
    /\ itinerary_meta = <<>>
    /\ budget_raw \in GeneratedBudgets
    /\ budget_info = normalize_budget_estimate(budget_raw, total_budget, days)
    /\ meal_pois = <<>>
    /\ hotel_recs = <<>>
    /\ \E quotes \in SeqsUpTo(SampleQuotes, MaxQuotes) :
        transport_options = [travelers |-> 2, quotes |-> quotes]
    /\ transport_summary = NoSummary
    /\ _exchange_rate_cache = <<>>
    /\ _cost_history = <<>>
    /\ MealIdle
    /\ SvcIdle

TransportNext == InjectTransport

SpecTransport == TransportInit /\ [][TransportNext]_vars

\* Whether an activity or meal text of the day holds a word of the meal
\* scheduler's keyword set.
C19_Mentions(day) ==
    (UNION {KeywordsIn(day.activities[i].activity) : i \in 1..Len(day.activities)}
        \cup UNION {KeywordsIn(day.meals[i].restaurant) : i \in 1..Len(day.meals)})
    \cap TRAVEL_ACTIVITY_KEYWORDS # {}

\* The travel day as the claim C19 words it.
C19_ClaimedDay ==
    LET hits == {i \in 1..Len(itinerary) : C19_Mentions(itinerary[i])}
    IN  IF hits = {} THEN 1 ELSE SetMin(hits)

\* C19: the transport entry goes to the first day whose activity or meal
\* text holds a keyword of the meal scheduler's set (travel, transfer,
\* transit, journey, drive, flight, train, depart, arrival, commute, ferry,
\* bus), and to day 1 if no day does.
C19_TravelDayBySchedulerKeywords ==
    [][(pc = "transport" /\ transport_summary' # NoSummary) =>
            /\ Len(itinerary'[C19_ClaimedDay].activities)
                    = Len(itinerary[C19_ClaimedDay].activities) + 1
            /\ transport_summary'.travel_day = itinerary[C19_ClaimedDay].day]_vars

(***************************************************************************)
(* Specification of outlier smoothing over the process-wide cost history:  *)
(* the requests of two workers call _smooth_cost_outliers, up to MaxCalls  *)
(* calls in all, and the calls interleave between activities.              *)
(***************************************************************************)
Workers == {"w1", "w2"}

\* A cost history that is full: 120 values, the oldest first.
FullHistory == [i \in 1..HISTORY_MAXLEN |-> i]

\* The cost histories earlier requests may have left.
SmoothHistories ==
    {<<>>, [c \in {"museum"} |-> <<20>>], [c \in {"general"} |-> FullHistory]}

CheckIn == Entry(<<9, 0, "">>, "Check-in", 0, NoCost, 0, "lodging")

\* The activity lists of the days a call may be given.
SmoothDocs ==
    {<<Entry(NoMatch, "Museum visit", 0, 100, NoCost, "museum")>>,
     <<Entry(NoMatch, "Museum visit", 0, 5, NoCost, "Museum"), Museum>>,
     <<Entry(NoMatch, "Museum visit", 0, 7, NoCost, ""), Walk>>,
     <<CheckIn, Entry(NoMatch, "Museum visit", 0, 7, -5, "lodging")>>,
     <<Entry(NoMatch, "Museum visit", 0, 200, NoCost, "")>>}

NoCall == [activities |-> <<>>, k |-> 1]

SmoothInit ==
    /\ pc = "_smooth_cost_outliers"
    /\ calls = 0
    /\ _cost_history \in SmoothHistories
    /\ smoothing = [w \in Workers |-> NoCall]
    /\ DocIdle
    /\ MealIdle
    /\ itinerary_meta = <<>> /\ meal_pois = <<>> /\ hotel_recs = <<>>
    /\ transport_options = <<>> /\ transport_summary = <<>>
    /\ _exchange_rate_cache = <<>>
    /\ CacheIdle /\ AgentIdle /\ ParseIdle /\ ReqIdle

\* A request of worker w reaches line 542 with the day's activities.
BeginSmooth(w) ==
    /\ calls < MaxCalls
    /\ smoothing[w].k > Len(smoothing[w].activities)
    /\ \E activities \in SmoothDocs :
        smoothing' = [smoothing EXCEPT ![w] = [activities |-> activities, k |-> 1]]
    /\ calls' = calls + 1
    /\ UNCHANGED <<pc, docVars, mealVars, pipeVars, cacheVars, agentVars, parseVars, reqVars>>

\* lines 133-149: worker w processes the next activity of its call.
SmoothStep(w) ==
    /\ smoothing[w].k <= Len(smoothing[w].activities)
    /\ LET k == smoothing[w].k
           activity == smoothing[w].activities[k]
       IN  /\ smoothing' = [smoothing EXCEPT
                              ![w].activities[k] = SmoothedActivity(activity, _cost_history),
                              ![w].k = k + 1]
           /\ _cost_history' = HistoryAfter(activity, _cost_history)
    /\ UNCHANGED <<pc, calls, docVars, mealVars, itinerary_meta, meal_pois, hotel_recs,
                   transport_options, transport_summary, _exchange_rate_cache,
                   cacheVars, agentVars, parseVars, reqVars>>

SmoothNext == \E w \in Workers : BeginSmooth(w) \/ SmoothStep(w)

SpecSmooth == SmoothInit /\ [][SmoothNext]_vars

\* The activity worker w processes in this step, and what is written back.
C11_Processed(w) == smoothing[w].activities[smoothing[w].k]
C11_Written(w) == smoothing'[w].activities[smoothing[w].k]
C11_Total(w) == HistorySum(HistoryOf(_cost_history, CategoryOf(C11_Processed(w))))
C11_Count(w) == Len(HistoryOf(_cost_history, CategoryOf(C11_Processed(w))))

\* C11: for every activity whose cost is non-zero and whose category has a
\* non-zero rolling average avg just before it is processed, the cost written
\* back c satisfies 0.4 * avg <= c <= 2.2 * avg, and a cost already inside
\* that band is written back unchanged.
C11_WrittenCostInBand ==
    [][\A w \in Workers :
        (/\ smoothing[w].k <= Len(smoothing[w].activities)
         /\ smoothing'[w].k = smoothing[w].k + 1
         /\ ReadCost(C11_Processed(w)) # 0
         /\ C11_Total(w) # 0) =>
            LET cost == ReadCost(C11_Processed(w))
                c == C11_Written(w).cost
                n == C11_Count(w)
                total == C11_Total(w)
            IN  /\ 2 * total <= 5 * n * c
                /\ 5 * n * c <= 11 * total
                /\ (2 * total <= 5 * n * cost /\ 5 * n * cost <= 11 * total => c = cost)]_vars

\* C16: every category's cost history holds at most 120 values, all strictly
\* positive, and a value appended to a full history removes the oldest one.
C16_HistoryCapped ==
    /\ [](\A c \in DOMAIN _cost_history :
            /\ Len(_cost_history[c]) <= 120
            /\ \A i \in 1..Len(_cost_history[c]) : _cost_history[c][i] > 0)
    /\ [][\A c \in DOMAIN _cost_history :
            (Len(_cost_history[c]) = 120 /\ _cost_history'[c] # _cost_history[c]) =>
                /\ Len(_cost_history'[c]) = 120
                /\ SubSeq(_cost_history'[c], 1, 119) = Tail(_cost_history[c])]_vars

\* C16 witness: two values were appended to a full history, and a negative
\* and a zero cost were processed without being recorded.
C16_Witness ==
    /\ "general" \in DOMAIN _cost_history
    /\ Len(_cost_history["general"]) = 120
    /\ _cost_history["general"][1] = 3
    /\ \E w \in Workers :
        /\ smoothing[w].k = 3
        /\ smoothing[w].activities[1] = CheckIn
        /\ "lodging" \notin DOMAIN _cost_history

(***************************************************************************)
(* Specification of the TTL cache in sequential use: callers set, get and  *)
(* get-or-fetch entries, mutate the payloads they hold, and time passes.   *)
(***************************************************************************)
MaxCacheCalls == 3      \* set, get and get-or-fetch calls
MaxClock == 3700        \* the clock stops here

CacheKeys == {"paris|2024-05-01|meals"}

\* How much time passes between two calls.
ClockSteps == {1800, 1801}

\* What a fetcher may do: raise, return nothing, return a list.
FetchResults ==
    {[raises |-> TRUE, contents |-> <<>>],
     [raises |-> FALSE, contents |-> <<>>],
     [raises |-> FALSE, contents |-> <<5>>]}

\* The call had no fetcher.
NoFetch == [raises |-> FALSE, contents |-> <<>>]

CacheInit ==
    /\ pc = "cache"
    /\ calls = 0
    /\ _poi_cache = <<>>
    /\ now = 0
    /\ heap = <<<<1, 2>>, <<>>>>
    /\ held = {1, 2}
    /\ stored = <<>>
    /\ geo_result = <<>>
    /\ DocIdle /\ MealIdle /\ PipeIdle
    /\ SmoothIdle /\ AgentIdle /\ ParseIdle /\ ReqIdle

CacheFrame ==
    UNCHANGED <<pc, docVars, mealVars, pipeVars, smoothVars, agentVars, parseVars, reqVars>>

\* A caller stores a payload it holds.
SetCacheEntry(key, data) ==
    /\ calls < MaxCacheCalls
    /\ LET out == _set_cache_entry(_poi_cache, heap, key, data, now)
       IN  /\ _poi_cache' = out.cache
           /\ heap' = out.heap
    /\ stored' = SetKey(stored, key, heap[data])
    /\ geo_result' = [op |-> "set", key |-> key, raised |-> FALSE, value |-> None,
                      fetched |-> NoFetch, fallback |-> None, invoked |-> FALSE]
    /\ calls' = calls + 1
    /\ UNCHANGED <<now, held>>
    /\ CacheFrame

\* A caller reads a key and keeps what it got.
GetCachedEntry(key) ==
    /\ calls < MaxCacheCalls
    /\ LET out == _get_cached_entry(_poi_cache, heap, key, now)
       IN  /\ _poi_cache' = out.cache
           /\ heap' = out.heap
           /\ held' = IF out.value # None THEN held \cup {out.value} ELSE held
           /\ geo_result' = [op |-> "get", key |-> key, raised |-> FALSE, value |-> out.value,
                             fetched |-> NoFetch, fallback |-> None, invoked |-> FALSE]
    /\ calls' = calls + 1
    /\ UNCHANGED <<now, stored>>
    /\ CacheFrame

\* A caller reads a key through the get-or-fetch wrapper.
CachedGeoResult(key, fetched, fallback) ==
    /\ calls < MaxCacheCalls
    /\ LET out == _cached_geo_result(_poi_cache, heap, key, fetched, fallback, now)
       IN  /\ _poi_cache' = out.cache
           /\ heap' = out.heap
           /\ held' = IF out.value # None THEN held \cup {out.value} ELSE held
           /\ stored' = IF key \in DOMAIN out.cache /\ out.cache[key].ts = now
                           /\ (key \notin DOMAIN _poi_cache \/ out.cache[key] # _poi_cache[key])
                        THEN SetKey(stored, key, out.heap[out.value])
                        ELSE stored
           /\ geo_result' = [op |-> "geo", key |-> key, raised |-> out.raised,
                             value |-> out.value, fetched |-> fetched, fallback |-> fallback,
                             invoked |-> out.invoked]
    /\ calls' = calls + 1
    /\ UNCHANGED now
    /\ CacheFrame

\* A caller changes a payload it holds.
MutatePayload(obj) ==
    /\ 9 \notin {heap[obj][i] : i \in 1..Len(heap[obj])}
    /\ heap' = [heap EXCEPT ![obj] = Append(@, 9)]
    /\ UNCHANGED <<calls, _poi_cache, now, held, stored, geo_result>>
    /\ CacheFrame

ClockTick(d) ==
    /\ now + d <= MaxClock
    /\ now' = now + d
    /\ UNCHANGED <<calls, _poi_cache, heap, held, stored, geo_result>>
    /\ CacheFrame

CacheNext ==
    \/ \E key \in CacheKeys, data \in held : SetCacheEntry(key, data)
    \/ \E key \in CacheKeys : GetCachedEntry(key)
    \/ \E key \in CacheKeys, fetched \in FetchResults, fallback \in {None, 1, 2} :
            CachedGeoResult(key, fetched, fallback)
    \/ \E obj \in held : MutatePayload(obj)
    \/ \E d \in ClockSteps : ClockTick(d)

SpecCache == CacheInit /\ [][CacheNext]_vars

\* The cache holds a live entry for the key / an expired one.
C12_Live(key) ==
    key \in DOMAIN _poi_cache /\ now - _poi_cache[key].ts <= 3600
C12_Expired(key) ==
    key \in DOMAIN _poi_cache /\ now - _poi_cache[key].ts > 3600

\* C12: after set(key, payload) at time s, a get at time t with t - s <= TTL
\* returns a value equal to the payload as it was stored, in an object that
\* is neither the stored copy nor an object any caller holds, so that no
\* mutation of the caller's payload or of a returned value changes what a
\* later get returns; a get with t - s > TTL returns a miss and removes the
\* key from the cache.
C12_GetWithinTtlReturnsCopy ==
    /\ [](\A key \in DOMAIN _poi_cache : _poi_cache[key].data \notin held)
    /\ [][(calls' = calls + 1 /\ geo_result'.op = "get") =>
            LET key == geo_result'.key
                value == geo_result'.value
            IN  /\ C12_Live(key) =>
                    /\ value # None
                    /\ heap'[value] = stored[key]
                    /\ value # _poi_cache[key].data
                    /\ value \notin held
                    /\ _poi_cache' = _poi_cache
                /\ C12_Expired(key) =>
                    /\ value = None
                    /\ key \notin DOMAIN _poi_cache']_vars

\* C12 witness: a payload was stored at time 0 and then mutated by its
\* owner; the get at time 3600 returned the contents as stored.
C12_Witness ==
    /\ geo_result # <<>>
    /\ geo_result.op = "get"
    /\ geo_result.value # None
    /\ now = 3600
    /\ _poi_cache[geo_result.key].ts = 0
    /\ heap[1] = <<1, 2, 9>>
    /\ heap[geo_result.value] = <<1, 2>>

\* C15: _cached_geo_result never raises; when the fetcher raises (and the
\* key is not cached) it returns the caller's fallback, the empty sequence
\* when the caller gave none or an empty one.
C15_FetchFailureGivesFallback ==
    [][(calls' = calls + 1 /\ geo_result'.op = "geo") =>
            /\ ~geo_result'.raised
            /\ geo_result'.value # None
            /\ (geo_result'.fetched.raises /\ ~C12_Live(geo_result'.key)) =>
                    IF geo_result'.fallback # None /\ heap[geo_result'.fallback] # <<>>
                    THEN geo_result'.value = geo_result'.fallback
                    ELSE heap'[geo_result'.value] = <<>>]_vars

\* C15 witness: the fetcher raised on a key that was not cached and the call
\* returned the caller's fallback, which is now cached under the key.
C15_Witness ==
    /\ geo_result # <<>>
    /\ geo_result.op = "geo"
    /\ geo_result.fetched.raises
    /\ ~geo_result.raised
    /\ geo_result.value = 1
    /\ geo_result.fallback = 1
    /\ calls = 1
    /\ geo_result.key \in DOMAIN _poi_cache

\* C29: when the fetcher fails or returns nothing, the fallback is stored
\* under the key; a call for a key whose entry is within the TTL returns the
\* stored contents and does not invoke the fetcher, so the fetcher runs at
\* most once per key and TTL window, whether it succeeded or failed.
C29_FallbackIsCached ==
    [][(calls' = calls + 1 /\ geo_result'.op = "geo") =>
            LET key == geo_result'.key
                value == geo_result'.value
            IN  /\ C12_Live(key) =>
                    /\ ~geo_result'.invoked
                    /\ heap'[value] = stored[key]
                    /\ _poi_cache' = _poi_cache
                /\ geo_result'.invoked =>
                    /\ key \in DOMAIN _poi_cache'
                    /\ _poi_cache'[key].ts = now
                    /\ heap'[_poi_cache'[key].data] = heap'[value]
                    /\ (geo_result'.fetched.raises \/ geo_result'.fetched.contents = <<>>) =>
                            heap'[value] = IF geo_result'.fallback # None
                                           THEN heap[geo_result'.fallback] ELSE <<>>]_vars

\* C29 witness: at time 0 the fetcher gave nothing, no fallback was given
\* and a new empty list was cached; the call at time 3600, whose fetcher
\* would have answered, returned a copy of the empty list without invoking
\* it.
C29_Witness ==
    /\ geo_result # <<>>
    /\ geo_result.op = "geo"
    /\ ~geo_result.invoked
    /\ geo_result.fetched.contents = <<5>>
    /\ now = 3600
    /\ calls = 2
    /\ _poi_cache[geo_result.key].ts = 0
    /\ heap[geo_result.value] = <<>>
    /\ stored[geo_result.key] = <<>>
    /\ Len(heap) = 5

(***************************************************************************)
(* Specification of the parser: _parse_json_safe applied to a response the *)
(* generator may give.                                                     *)
(***************************************************************************)
Prefixes == {"none", "fence", "prose"}
CostTexts == {"plain", "range", "short", "negative"}

\* The tokens of the cost value.
CostTokens(cost) ==
    CASE cost = "plain" -> <<Num(4000)>>
      [] cost = "range" -> <<Num(3500), Punct("-"), Num(4500)>>
      [] cost = "short" -> <<Num(6), Punct("-"), Num(8)>>
      [] cost = "negative" -> <<Punct("-"), Num(5)>>

Around(part) ==
    CASE part = "none" -> <<>>
      [] part = "fence" -> <<Fence>>
      [] part = "prose" -> <<Word("Here"), Word("you"), Word("go")>>

\* A response: {"cost": <cost>, "ok": true} with the defects a generator adds.
ModelText(prefix, cost, trailing, duplicate, suffix, broken) ==
    (IF prefix = "fence" THEN <<FenceJson>> ELSE Around(prefix))
    \o <<Punct("{"), Str("cost"), Punct(":")>> \o CostTokens(cost) \o <<Punct(",")>>
    \o (IF duplicate THEN <<Punct(",")>> ELSE <<>>)
    \o <<Str("ok")>> \o (IF broken THEN <<>> ELSE <<Punct(":")>>) \o <<Lit("true")>>
    \o (IF trailing THEN <<Punct(",")>> ELSE <<>>)
    \o <<Punct("}")>> \o Around(suffix)

\* The responses of the generator: the empty one and the texts above.
GeneratorTexts ==
    {<<>>} \cup
    {ModelText(prefix, cost, trailing, duplicate, suffix, broken) :
        prefix \in Prefixes, cost \in CostTexts, trailing \in BOOLEAN,
        duplicate \in BOOLEAN, suffix \in Prefixes, broken \in BOOLEAN}

ParseInit ==
    /\ pc = "_parse_json_safe"
    /\ calls = 0
    /\ text \in GeneratorTexts
    /\ parsed = <<>>
    /\ DocIdle /\ MealIdle /\ PipeIdle
    /\ SmoothIdle /\ CacheIdle /\ AgentIdle /\ ReqIdle

ParseJsonSafe ==
    /\ pc = "_parse_json_safe"
    /\ parsed' = _parse_json_safe(text)
    /\ pc' = "parsed"
    /\ UNCHANGED <<calls, text, docVars, mealVars, pipeVars, smoothVars, cacheVars, agentVars,
                   reqVars>>

ParseNext == ParseJsonSafe

SpecParse == ParseInit /\ [][ParseNext]_vars

\* The text '{"cost": 3500 - 4500, "ok": true,}'.
C18_Text == ModelText("none", "range", TRUE, FALSE, "none", FALSE)

\* C18: from '{"cost": 3500 - 4500, "ok": true,}' the parser returns the map
\* {"cost": 4000, "ok": true}: the strict parse and the sliced parse fail, and
\* the final parse succeeds on the text with the trailing comma removed and
\* the range replaced by the midpoint (3500 + 4500) // 2.
C18_RecoversRangeAndComma ==
    (pc = "parsed" /\ text = C18_Text) =>
        /\ ~json_loads(text).ok
        /\ ~json_loads(Sliced(text)).ok
        /\ Cleaned(Sliced(text)) =
            <<Punct("{"), Str("cost"), Punct(":"), Num(4000), Punct(","),
              Str("ok"), Punct(":"), Lit("true"), Punct("}")>>
        /\ ~parsed.raised
        /\ DOMAIN parsed.value = {"cost", "ok"}
        /\ parsed.value.cost = 4000
        /\ parsed.value.ok = TRUE

C18_Witness ==
    /\ pc = "parsed"
    /\ text = C18_Text
    /\ ~parsed.raised

(***************************************************************************)
(* Specification of the generation agents: planner_agent and budget_agent  *)
(* run the same retry loop around the provider call and the parser.        *)
(***************************************************************************)
Agents == {"planner_agent", "budget_agent"}

max_retries == 3

\* The texts the provider returns to an agent.
AgentTexts ==
    {<<>>} \cup
    {ModelText(prefix, cost, trailing, FALSE, "none", broken) :
        prefix \in {"none", "fence"}, cost \in {"plain", "range"},
        trailing \in BOOLEAN, broken \in BOOLEAN}

\* What a generation attempt may answer: the provider raises (a rate limit
\* carries 429 in its message) or returns a text; mentions429 tells whether
\* the message of the exception raised in the attempt, if any, contains 429.
\* The message of a JSONDecodeError names the line, column and character of
\* the error and so may contain 429; "Empty model response" does not.
Responses ==
    {[kind |-> "raise", mentions429 |-> m, text |-> <<>>] : m \in BOOLEAN}
    \cup {[kind |-> "text", mentions429 |-> m, text |-> t] :
            m \in BOOLEAN, t \in AgentTexts}

\* Mutant of wait_time: the same wait after every attempt.
wait_time_Constant(n) == 15

\* line 226: wait_time = 15 * (attempt + 1)
wait_time(n) == 15 * (n + 1)

AgentInit ==
    /\ pc \in Agents
    /\ calls = 0
    /\ attempt = 0
    /\ response = <<>>
    /\ waits = <<>>
    /\ agent_result = <<>>
    /\ text = <<>>
    /\ parsed = <<>>
    /\ DocIdle /\ MealIdle /\ PipeIdle
    /\ SmoothIdle /\ CacheIdle /\ ReqIdle

\* lines 220-231: one pass of the loop body
GenerationAttempt(answer) ==
    /\ pc \in Agents
    /\ agent_result = <<>>
    /\ attempt < max_retries
    /\ response' = answer
    /\ text' = answer.text
    /\ parsed' = IF answer.kind = "text" THEN _parse_json_safe(answer.text) ELSE <<>>
    /\ IF answer.kind = "text" /\ ~parsed'.raised
       THEN /\ agent_result' = [status |-> "returned", value |-> parsed'.value]
            /\ UNCHANGED <<attempt, waits>>
       ELSE IF answer.mentions429 /\ attempt < max_retries - 1
       THEN /\ waits' = Append(waits, wait_time(attempt))
            /\ attempt' = attempt + 1
            /\ UNCHANGED agent_result
       ELSE /\ agent_result' = [status |-> "raised", value |-> <<>>]
            /\ UNCHANGED <<attempt, waits>>
    /\ (answer.mentions429 =>
            IF answer.kind = "raise" THEN TRUE
            ELSE parsed'.raised /\ parsed'.error = "JSONDecodeError")
    /\ UNCHANGED <<pc, calls, docVars, mealVars, pipeVars, smoothVars, cacheVars, reqVars>>

AgentNext == \E answer \in Responses : GenerationAttempt(answer)

SpecAgent == AgentInit /\ [][AgentNext]_vars

\* The attempt of this step was rate-limited / succeeded.
C13_RateLimited == response'.kind = "raise" /\ response'.mentions429
C13_Succeeded == response'.kind = "text" /\ ~parsed'.raised

\* C13: at most 3 generation attempts are made; after the k-th rate-limited
\* attempt (k = 1, 2) the agent waits 15 * k seconds and tries again; a
\* successful attempt returns its parsed document at once; a rate-limited
\* third attempt propagates the error with no further wait.
C13_ThreeAttemptsLinearBackoff ==
    /\ [](attempt <= 2 /\ Len(waits) = attempt
          /\ \A k \in 1..Len(waits) : waits[k] = 15 * k)
    /\ [][(attempt' # attempt \/ agent_result' # agent_result) =>
            /\ (C13_RateLimited /\ attempt < 2) =>
                    /\ waits' = Append(waits, 15 * (attempt + 1))
                    /\ attempt' = attempt + 1
                    /\ agent_result' = <<>>
            /\ (C13_RateLimited /\ attempt = 2) =>
                    /\ agent_result' # <<>>
                    /\ agent_result'.status = "raised"
                    /\ waits' = waits
            /\ C13_Succeeded =>
                    /\ agent_result' # <<>>
                    /\ agent_result'.status = "returned"
                    /\ agent_result'.value = parsed'.value
                    /\ waits' = waits]_vars

\* C13 witness: three rate-limited attempts, waits of 15 and 30 seconds, and
\* the error of the third one propagated.
C13_Witness ==
    /\ attempt = 2
    /\ waits = <<15, 30>>
    /\ response # <<>>
    /\ response.kind = "raise" /\ response.mentions429
    /\ agent_result # <<>>
    /\ agent_result.status = "raised"

\* C23: an attempt whose text does not parse (the empty response included)
\* propagates the error at once: no wait, no further attempt.
C23_ParseFailureNeverRetried ==
    [][(response'.kind = "text" /\ parsed'.raised) =>
            /\ agent_result' # <<>>
            /\ agent_result'.status = "raised"
            /\ waits' = waits
            /\ attempt' = attempt]_vars

(***************************************************************************)
(* Specification of the hotel step alone: _inject_hotel_recommendations    *)
(* called again and again on the same normalized itinerary.                *)
(***************************************************************************)
HotelLists ==
    {<<[name |-> "Grand Hotel"]>>,
     <<[name |-> "Harbour Inn"], [name |-> "Grand Hotel"], [name |-> "Hostel"],
       [name |-> "Station Hotel"]>>}

HotelInit ==
    /\ pc = "hotels"
    /\ calls = 0
    /\ \E r \in PipelineRequests : total_budget = r[1] /\ days = r[2]
    /\ \E kinds \in SeqsUpTo(DayKinds, MaxDays) :
        /\ kinds # <<>>
        /\ itinerary_raw = [i \in 1..Len(kinds) |-> GeneratedDay(kinds[i], i)]
    /\ itinerary = normalize_itinerary_costs(itinerary_raw, total_budget, days)
    /\ itinerary_meta = <<>>
    /\ budget_raw = <<>>
    /\ budget_info = <<>>
    /\ meal_pois = <<>>
    /\ hotel_recs = <<>>
    /\ transport_options = <<>>
    /\ transport_summary = NoSummary
    /\ _exchange_rate_cache = <<>>
    /\ _cost_history = <<>>
    /\ MealIdle
    /\ SvcIdle

\* lines 156-196: one call with the hotel list `hotels`
InjectHotelRecommendations(hotels) ==
    /\ pc = "hotels"
    /\ calls <= MaxCalls
    /\ hotel_recs' = hotels
    /\ itinerary' = InjectHotelSchedule(itinerary, hotels)
    /\ itinerary_meta' = InjectHotelMeta(itinerary_meta, hotels)
    /\ itinerary_raw' = RawAfter(itinerary_raw, itinerary')
    /\ calls' = calls + 1
    /\ UNCHANGED <<svcVars, pc, total_budget, days, budget_raw, budget_info, mealVars,
                   meal_pois, transport_options, transport_summary, _exchange_rate_cache,
                   _cost_history>>

HotelNext == \E hotels \in HotelLists : InjectHotelRecommendations(hotels)

SpecHotels == HotelInit /\ [][HotelNext]_vars

\* The positions of the synthetic check-in entries in day 1.
C21_CheckIns ==
    {i \in 1..Len(itinerary[1].activities) :
        /\ itinerary[1].activities[i].activity = "Check-in"
        /\ itinerary[1].activities[i].category = "lodging"}

\* C21: after one or more calls with a non-empty hotel list, day 1 holds
\* exactly one check-in entry, of cost 0 and at position 0; the first call
\* inserts it in front of the activities and later calls insert nothing.
C21_HotelInjectionIdempotent ==
    /\ [](calls >= 1 =>
            /\ C21_CheckIns = {1}
            /\ _coerce_cost(itinerary[1].activities[1].cost) = 0
            /\ itinerary[1].activities[1].estimated_cost = 0)
    /\ [][/\ calls = 0 => Tail(itinerary'[1].activities) = itinerary[1].activities
          /\ calls >= 1 => itinerary' = itinerary]_vars

\* C21 witness: three calls were made, the last with another hotel list than
\* the one the check-in entry was made from.
C21_Witness ==
    /\ pc = "hotels"
    /\ calls = 3
    /\ Len(hotel_recs) = 4
    /\ Len(itinerary[1].lodging) = 1
    /\ C21_CheckIns = {1}

(***************************************************************************)
(* Specification of concurrent requests on the cache: _get_cached_entry    *)
(* taken statement by statement, so that steps of other requests fall      *)
(* between its read of the entry, its test of the age and its pop.         *)
(***************************************************************************)
CacheClients == {"a", "b"}

NoPayload == <<>>

IdleGet == [at |-> "idle", key |-> "", payload |-> NoPayload]

RaceInit ==
    /\ pc = "cache"
    /\ calls = 0
    /\ _poi_cache = <<>>
    /\ now = 0
    /\ heap = <<<<1, 2>>, <<>>>>
    /\ held = {1, 2}
    /\ stored = <<>>
    /\ geo_result = <<>>
    /\ inflight = [r \in CacheClients |-> IdleGet]
    /\ request = <<>> /\ _hotel_cache = <<>> /\ external_calls = 0
    /\ http = <<>> /\ rate_ts = <<>>
    /\ DocIdle /\ MealIdle /\ PipeIdle
    /\ SmoothIdle /\ AgentIdle /\ ParseIdle

RaceFrame ==
    UNCHANGED <<pc, docVars, mealVars, pipeVars, smoothVars, agentVars, parseVars,
                request, _hotel_cache, external_calls, http, rate_ts>>

\* The calls begun: those completed and those in progress.
Begun == calls + Cardinality({r \in CacheClients : inflight[r].at # "idle"})

GetReturns(r, value) ==
    /\ inflight' = [inflight EXCEPT ![r] = IdleGet]
    /\ geo_result' = [op |-> "get", key |-> inflight[r].key, raised |-> FALSE,
                      value |-> value, fetched |-> NoFetch, fallback |-> None,
                      invoked |-> FALSE]
    /\ calls' = calls + 1

\* line 78: payload = cache.get(key)
GetRead(r, key) ==
    /\ inflight[r].at = "idle"
    /\ Begun < MaxCacheCalls
    /\ inflight' = [inflight EXCEPT ![r] =
                        [at |-> "read", key |-> key,
                         payload |-> IF key \in DOMAIN _poi_cache
                                     THEN <<_poi_cache[key]>> ELSE NoPayload]]
    /\ UNCHANGED <<calls, _poi_cache, now, heap, held, stored, geo_result>>
    /\ RaceFrame

\* lines 79-81 and 84: the tests of the payload and of its age, and the
\* return of a copy
GetTest(r) ==
    /\ inflight[r].at = "read"
    /\ IF inflight[r].payload = NoPayload
       THEN /\ GetReturns(r, None)
            /\ UNCHANGED <<heap, held>>
       ELSE IF now - inflight[r].payload[1].ts > CACHE_TTL_SECONDS
       THEN /\ inflight' = [inflight EXCEPT ![r].at = "pop"]
            /\ UNCHANGED <<calls, heap, held, geo_result>>
       ELSE /\ heap' = HeapAfterCopy(heap, inflight[r].payload[1].data)
            /\ held' = held \cup {copy_deepcopy(heap, inflight[r].payload[1].data)}
            /\ GetReturns(r, copy_deepcopy(heap, inflight[r].payload[1].data))
    /\ UNCHANGED <<_poi_cache, now, stored>>
    /\ RaceFrame

\* lines 82-83: cache.pop(key, None); return None
GetPop(r) ==
    /\ inflight[r].at = "pop"
    /\ _poi_cache' = DropKey(_poi_cache, inflight[r].key)
    /\ GetReturns(r, None)
    /\ UNCHANGED <<now, heap, held, stored>>
    /\ RaceFrame

\* lines 87-91: the assignment cache[key] = {...} is one step
RaceSet(r, key, data) ==
    /\ inflight[r].at = "idle"
    /\ Begun < MaxCacheCalls
    /\ LET out == _set_cache_entry(_poi_cache, heap, key, data, now)
       IN  /\ _poi_cache' = out.cache
           /\ heap' = out.heap
    /\ stored' = SetKey(stored, key, heap[data])
    /\ geo_result' = [op |-> "set", key |-> key, raised |-> FALSE, value |-> None,
                      fetched |-> NoFetch, fallback |-> None, invoked |-> FALSE]
    /\ calls' = calls + 1
    /\ UNCHANGED <<now, held, inflight>>
    /\ RaceFrame

RaceTick(d) ==
    /\ now + d <= MaxClock
    /\ now' = now + d
    /\ UNCHANGED <<calls, _poi_cache, heap, held, stored, geo_result, inflight>>
    /\ RaceFrame

RaceNext ==
    \/ \E r \in CacheClients, key \in CacheKeys : GetRead(r, key)
    \/ \E r \in CacheClients : GetTest(r)
    \/ \E r \in CacheClients : GetPop(r)
    \/ \E r \in CacheClients, key \in CacheKeys, data \in {1, 2} : RaceSet(r, key, data)
    \/ \E d \in ClockSteps : RaceTick(d)

SpecRace == RaceInit /\ [][RaceNext]_vars

\* C30: under any interleaving of the get and set steps of concurrent
\* requests on a key, no step removes an entry whose age is within the TTL.
C30_FreshEntryNeverEvicted ==
    [][\A key \in DOMAIN _poi_cache :
            key \notin DOMAIN _poi_cache' => now - _poi_cache[key].ts > CACHE_TTL_SECONDS]_vars

(***************************************************************************)
(* Specification of the currency conversion over time: _convert_to_usd     *)
(* called by one request after another while the clock advances.  rate_ts  *)
(* notes when each cached rate was stored; the code keeps no such time.    *)
(***************************************************************************)
Amounts == {0, 180, 8000}
Currencies == {"", "USD", "INR", "EUR"}

\* lines 221-222: whether the conversion asks get_exchange_rate
LookupPerformed(amount, currency, cache) ==
    amount > 0 /\ CurrencyCode(currency) # "USD" /\ CurrencyCode(currency) \notin DOMAIN cache

ExchangeInit ==
    /\ pc = "convert"
    /\ calls = 0
    /\ now = 0
    /\ _exchange_rate_cache = <<>>
    /\ rate_ts = <<>>
    /\ external_calls = 0
    /\ transport_summary = NoSummary
    /\ itinerary_meta = <<>> /\ meal_pois = <<>> /\ hotel_recs = <<>>
    /\ transport_options = <<>> /\ _cost_history = <<>>
    /\ _poi_cache = <<>> /\ heap = <<>> /\ held = {} /\ stored = <<>> /\ geo_result = <<>>
    /\ request = <<>> /\ _hotel_cache = <<>> /\ http = <<>> /\ inflight = <<>>
    /\ DocIdle /\ MealIdle
    /\ SmoothIdle /\ AgentIdle /\ ParseIdle

ExchangeFrame ==
    UNCHANGED <<pc, docVars, mealVars, itinerary_meta, meal_pois, hotel_recs, transport_options,
                _cost_history, smoothVars, agentVars, parseVars, _poi_cache, heap, held, stored,
                geo_result, request, _hotel_cache, http, inflight>>

\* lines 213-230: one conversion; transport_summary keeps what was asked and
\* what was answered
ConvertToUsd(amount, currency, lookup) ==
    /\ calls <= MaxCalls
    /\ _exchange_rate_cache' = CacheAfterConvert(amount, currency, _exchange_rate_cache, lookup)
    /\ external_calls' = external_calls
            + (IF LookupPerformed(amount, currency, _exchange_rate_cache) THEN 1 ELSE 0)
    /\ rate_ts' = IF LookupPerformed(amount, currency, _exchange_rate_cache)
                  THEN SetKey(rate_ts, CurrencyCode(currency), now) ELSE rate_ts
    /\ transport_summary' =
            [currency |-> CurrencyCode(currency), native_amount |-> amount,
             usd_amount |-> _convert_to_usd(amount, currency, _exchange_rate_cache, lookup)]
    /\ calls' = calls + 1
    /\ UNCHANGED now
    /\ ExchangeFrame

ExchangeTick(d) ==
    /\ now + d <= MaxClock
    /\ now' = now + d
    /\ UNCHANGED <<calls, _exchange_rate_cache, rate_ts, external_calls, transport_summary>>
    /\ ExchangeFrame

ExchangeNext ==
    \/ \E amount \in Amounts, currency \in Currencies, lookup \in ExchangeOutcomes :
            ConvertToUsd(amount, currency, lookup)
    \/ \E d \in ClockSteps : ExchangeTick(d)

SpecExchange == ExchangeInit /\ [][ExchangeNext]_vars

\* C25: a conversion of a positive amount for a currency whose cached rate,
\* fetched or the 1:1 default, is older than the TTL evicts the rate and
\* performs a new lookup.
C25_StaleRateRefetched ==
    [][(/\ calls' = calls + 1
        /\ transport_summary'.native_amount > 0
        /\ transport_summary'.currency \in DOMAIN _exchange_rate_cache
        /\ now - rate_ts[transport_summary'.currency] > CACHE_TTL_SECONDS) =>
            /\ external_calls' = external_calls + 1
            /\ rate_ts'[transport_summary'.currency] = now]_vars

\* What a fetcher may do with the lists of a set: raise, or return one.
FetchResultsOf(lists) ==
    {[raises |-> TRUE, contents |-> <<>>]}
    \cup {[raises |-> FALSE, contents |-> contents] : contents \in lists}

(***************************************************************************)
(* Specification of one generate_itinerary request from the parsed body to *)
(* the response: the values are read, the geo fetchers run through the     *)
(* caches, the values are validated, the two agents are called around the  *)
(* pipeline steps, and an exception of any step is answered by the         *)
(* handlers at the end of the function.                                    *)
(***************************************************************************)
\* The request bodies: well_formed tells whether days and budget are texts
\* int() and float() accept; coordinates whether destination_details holds a
\* lat and lon float() accepts; travelers 0 is a missing count.
RequestBodies ==
    [source : {"", "Delhi"}, destination : {"Paris"}, start_date : {""},
     well_formed : BOOLEAN, days : {0, 1, 31}, budget : {499, 600, 100001},
     interests : {1}, group : {"Solo", "Family"}, travelers : {-1, 0, 2},
     coordinates : BOOLEAN]

\* line 443: int(data.get('travelers') or 1)
TravelersOf(body) == IF body.travelers = 0 THEN 1 ELSE body.travelers

\* lines 71-74, the key as <<name, date, tag>>
_build_cache_key(name, date, tag) ==
    <<CASE name = "Paris" -> "paris" [] name = "" -> "unknown" [] OTHER -> name,
      IF date = "" THEN "any" ELSE date,
      tag>>

\* lines 489-502: the error of the first constraint the values break, "" if none
ValidationError(body) ==
    IF body.source = "" THEN "Source cannot be empty"
    ELSE IF body.destination = "" THEN "Destination cannot be empty"
    ELSE IF body.days < 1 \/ body.days > 30 THEN "Days must be between 1 and 30"
    ELSE IF body.budget < 500 \/ body.budget > 100000
    THEN "Budget must be between 500 and 100000"
    ELSE IF body.interests = 0 THEN "At least one interest must be selected"
    ELSE IF TravelersOf(body) < 1 THEN "Travelers must be at least 1"
    ELSE IF body.group # "Solo" /\ TravelersOf(body) < 2
    THEN "Please provide the number of travelers for non-solo trips"
    ELSE ""

BadRequest(error) == [status |-> 400, error |-> error, message |-> ""]

\* lines 566-579: the response to an exception of class cls; the clause
\* except ValueError takes ValueError and its subclasses, of which
\* json.JSONDecodeError is one
ErrorResponse(cls) ==
    IF cls \in {"ValueError", "JSONDecodeError"}
    THEN [status |-> 400, error |-> "Invalid input values", message |-> cls]
    ELSE [status |-> 500, error |-> "Failed to generate itinerary",
          message |-> "Please try again later"]

\* The class of the exception the agent call propagated: the parser's, or an
\* error of the provider's client.
RaisedClass == IF response.kind = "raise" THEN "Exception" ELSE parsed.error

RequestInit ==
    /\ pc = "request"
    /\ calls = 0
    /\ request \in RequestBodies
    /\ http = <<>>
    /\ _hotel_cache = <<>> /\ external_calls = 0 /\ rate_ts = <<>> /\ inflight = <<>>
    /\ _poi_cache = <<>> /\ now = 0 /\ heap = <<<<>>>> /\ held = {}
    /\ stored = <<>> /\ geo_result = <<>>
    /\ itinerary_meta = <<>> /\ meal_pois = <<>> /\ hotel_recs = <<>>
    /\ transport_options = <<>> /\ transport_summary = NoSummary
    /\ _exchange_rate_cache = <<>>
    /\ _cost_history \in EarlierHistories
    /\ DocIdle /\ MealIdle /\ SmoothIdle /\ AgentIdle /\ ParseIdle

\* lines 432-450
ReadValues ==
    /\ pc = "request"
    /\ IF request.well_formed
       THEN /\ total_budget' = request.budget
            /\ days' = request.days
            /\ pc' = "geo"
            /\ UNCHANGED http
       ELSE /\ http' = ErrorResponse("ValueError")
            /\ pc' = "responded"
            /\ UNCHANGED <<total_budget, days>>
    /\ UNCHANGED <<calls, itinerary_raw, itinerary, budget_raw, budget_info, mealVars,
                   pipeVars, smoothVars, cacheVars, agentVars, parseVars, request,
                   _hotel_cache, external_calls, rate_ts, inflight>>

\* lines 452-486; heap[1] is the empty list given as fallback
FetchGeo(pois, hotels) ==
    /\ pc = "geo"
    /\ IF request.coordinates
       THEN LET cache_tag == _build_cache_key(request.destination, request.start_date, "meals")
                hotel_tag == _build_cache_key(request.destination, request.start_date, "hotels")
                first == _cached_geo_result(_poi_cache, heap, cache_tag, pois, 1, now)
                second == _cached_geo_result(_hotel_cache, first.heap, hotel_tag, hotels, 1, now)
            IN  /\ _poi_cache' = first.cache
                /\ _hotel_cache' = second.cache
                /\ heap' = second.heap
                /\ meal_pois' = second.heap[first.value]
                /\ hotel_recs' = second.heap[second.value]
                /\ external_calls' = external_calls + (IF first.invoked THEN 1 ELSE 0)
                                                    + (IF second.invoked THEN 1 ELSE 0)
       ELSE /\ pois = NoFetch /\ hotels = NoFetch
            /\ UNCHANGED <<_poi_cache, _hotel_cache, heap, meal_pois, hotel_recs, external_calls>>
    /\ pc' = "validate"
    /\ UNCHANGED <<calls, docVars, mealVars, itinerary_meta, transport_options,
                   transport_summary, _exchange_rate_cache, _cost_history, smoothVars,
                   now, held, stored, geo_result, agentVars, parseVars,
                   request, http, rate_ts, inflight>>

\* lines 488-502
ValidateValues ==
    /\ pc = "validate"
    /\ IF ValidationError(request) # ""
       THEN http' = BadRequest(ValidationError(request)) /\ pc' = "responded"
       ELSE pc' = "planner_agent" /\ UNCHANGED http
    /\ UNCHANGED <<calls, docVars, mealVars, pipeVars, smoothVars, cacheVars, agentVars,
                   parseVars, request, _hotel_cache, external_calls, rate_ts, inflight>>

\* lines 513-515 once planner_agent has returned or raised; document is the
\* itinerary the parsed text holds
PlannerReturns(document) ==
    /\ pc = "planner_agent"
    /\ agent_result # <<>>
    /\ IF agent_result.status = "raised"
       THEN /\ http' = ErrorResponse(RaisedClass)
            /\ pc' = "responded"
            /\ document = <<>>
            /\ UNCHANGED <<itinerary_raw, agentVars, parseVars>>
       ELSE /\ document # <<>>
            /\ itinerary_raw' = document
            /\ pc' = "normalize"
            /\ attempt' = 0 /\ response' = <<>> /\ waits' = <<>> /\ agent_result' = <<>>
            /\ text' = <<>> /\ parsed' = <<>>
            /\ UNCHANGED http
    /\ UNCHANGED <<calls, total_budget, days, itinerary, budget_raw, budget_info, mealVars,
                   pipeVars, smoothVars, cacheVars, request, _hotel_cache, external_calls,
                   rate_ts, inflight>>

\* line 525: budget_agent is called
CallBudgetAgent ==
    /\ pc = "budget"
    /\ request # <<>>
    /\ pc' = "budget_agent"
    /\ UNCHANGED <<calls, docVars, mealVars, pipeVars, svcVars>>

\* lines 525-535 once budget_agent has returned or raised
BudgetReturns(document, quotes) ==
    /\ pc = "budget_agent"
    /\ agent_result # <<>>
    /\ IF agent_result.status = "raised"
       THEN /\ http' = ErrorResponse(RaisedClass)
            /\ pc' = "responded"
            /\ document = <<>> /\ quotes = <<>>
            /\ UNCHANGED <<budget_raw, budget_info, transport_options, agentVars, parseVars>>
       ELSE /\ document # <<>>
            /\ budget_raw' = document
            /\ budget_info' = normalize_budget_estimate(document, total_budget, days)
            /\ transport_options' = [travelers |-> TravelersOf(request), quotes |-> quotes]
            /\ pc' = "transport"
            /\ attempt' = 0 /\ response' = <<>> /\ waits' = <<>> /\ agent_result' = <<>>
            /\ text' = <<>> /\ parsed' = <<>>
            /\ UNCHANGED http
    /\ UNCHANGED <<calls, total_budget, days, itinerary_raw, itinerary, mealVars,
                   itinerary_meta, meal_pois, hotel_recs, transport_summary,
                   _exchange_rate_cache, _cost_history, smoothVars, cacheVars, request,
                   _hotel_cache, external_calls, rate_ts, inflight>>

\* lines 547-564
RespondSuccess ==
    /\ pc = "done"
    /\ request # <<>>
    /\ http' = [status |-> 200, error |-> "", message |-> ""]
    /\ pc' = "responded"
    /\ UNCHANGED <<calls, docVars, mealVars, pipeVars, smoothVars, cacheVars, agentVars,
                   parseVars, request, _hotel_cache, external_calls, rate_ts, inflight>>

RequestNext ==
    \/ ReadValues
    \/ \E pois \in FetchResultsOf(FetchedPois), hotels \in FetchResultsOf(FetchedHotels) :
        FetchGeo(pois, hotels)
    \/ ValidateValues
    \/ \E answer \in Responses : GenerationAttempt(answer)
    \/ \E document \in {<<>>} \cup {<<GeneratedDay(kind, 1)>> : kind \in DayKinds} :
        PlannerReturns(document)
    \/ NormalizeFirstPass
    \/ MergeMeals
    \/ InjectHotels
    \/ CallBudgetAgent
    \/ \E document \in {<<>>} \cup GeneratedBudgets,
          quotes \in {<<>>, <<Quote("flight-economy", "flight", "USD", 90, 180, NoMatch)>>} :
        BudgetReturns(document, quotes)
    \/ InjectTransport
    \/ SmoothOutliers
    \/ RespondSuccess

SpecRequest == RequestInit /\ [][RequestNext]_vars

\* The errors of the constraints on days, budget and travelers.
C22_InvalidInput ==
    {"Days must be between 1 and 30", "Budget must be between 500 and 100000",
     "Travelers must be at least 1",
     "Please provide the number of travelers for non-solo trips"}

\* C22: a request rejected as InvalidInput has invoked no geo or hotel
\* fetcher and has left the POI cache, the hotel cache and the cost history
\* as they were before it (both caches are empty before the request).
C22_RejectedBeforeAnyFetch ==
    (http # <<>> /\ http.error \in C22_InvalidInput) =>
        /\ external_calls = 0
        /\ _poi_cache = <<>>
        /\ _hotel_cache = <<>>
        /\ _cost_history \in EarlierHistories

\* C24: when an agent's text could not be parsed, the response is the
\* generic failure that asks to try again, not the invalid-input response.
C24_ParseFailureAnsweredGenerically ==
    (http # <<>> /\ parsed # <<>> /\ parsed.raised) =>
        /\ http.status = 500
        /\ http.error = "Failed to generate itinerary"
        /\ http.message = "Please try again later"

====
